---------------------------- MODULE Spec2Model ----------------------------
(***************************************************************************)
(* Model of the link-analytics service (igorkh9999/shortner-url): the      *)
(* redirect hot path with its L1 cache, the bounded analytics queue, the   *)
(* batching worker pool with its flush into PostgreSQL, and the SSE broker *)
(* with its subscriber streams.                                            *)
(*                                                                         *)
(* PostgreSQL and Redis are modelled by the tables and keys the handlers   *)
(* and workers read and write; a statement is one atomic step, and a step  *)
(* that may fail has both outcomes.  Timestamps are not modelled.          *)
(***************************************************************************)
EXTENDS Integers, Sequences, FiniteSets, TLC

(***************************************************************************)
(* Bounds of the model.  The capacities and pool sizes of the program      *)
(* (queue 10000, 10 workers, batches of 100, mailboxes of 10) are scaled   *)
(* down to these; every formula below is stated over the names.            *)
(***************************************************************************)
\* capacity of AnalyticsQueue: make(chan models.ClickEvent, 10000)
QueueCap == 2
\* NumWorkers = 10
NumWorkers == 2
\* BatchSize = 100
BatchSize == 2
\* capacity of a client channel: make(chan []byte, 10)
MailboxCap == 1
\* number of HTTP requests served in one behaviour
MaxRequests == 3
\* number of click events produced in one behaviour of the worker pool
MaxClicks == 3
\* clicks produced while streams are open
MaxBroadcasts == 2
\* requests served while streams are followed from registration to the end
\* of the process
MaxStreamClicks == 1
\* number of requests in flight at once
MaxInFlight == 2
\* number of subscription streams opened in one behaviour
MaxSubscribers == 2
\* BatchTimeout = 5 * time.Second, in units of the model's clock
BatchTimeout == 2
\* click events produced while the clock is followed
MaxTimedClicks == 2
\* length of the request paths that are parsed
MaxPathLen == 4
\* the limit GetAnalytics passes to GetTopReferrers (10 in the program)
TopLimit == 1
\* capacity of a client channel where the order of its messages is followed
FifoMailboxCap == 2

(***************************************************************************)
(* Value domains.                                                          *)
(***************************************************************************)
None == "none"
\* short codes with a row in links, and one without
KnownCodes == {"a", "b"}
UnknownCode == "z"
Codes == KnownCodes \cup {UnknownCode}
\* rows of the links table: short_code -> original_url
LinkRows == [c \in Codes |-> IF c = "a" THEN "https://ex.com/a"
                             ELSE IF c = "b" THEN "https://ex.com/b"
                             ELSE None]
IPs == {"10.0.0.1", "10.0.0.2"}
UserAgents == {"ua"}
Referers == {"", "https://a.io", "https://t.co"}

Reqs == 1..MaxInFlight
Workers == 1..NumWorkers
Subs == 1..MaxSubscribers

\* utils.HashVisitor: hex(sha256(ip + userAgent)); the digest is modelled
\* by its preimage, the concatenation, so that equal hashes are equal inputs
HashVisitor(ip, userAgent) == ip \o userAgent

\* models.ClickEvent (Timestamp left out)
ClickEvent(shortCode, ip, userAgent, referer) ==
    [ShortCode |-> shortCode, IPAddress |-> ip, UserAgent |-> userAgent,
     Referer |-> referer, VisitorHash |-> HashVisitor(ip, userAgent)]

VARIABLES
    links,      \* PostgreSQL links: short_code -> original_url or None
    L1Cache,    \* handlers.L1Cache: short_code -> url or None
    kvLink,     \* Redis link:<code> -> url or None
    kvPending,  \* goroutines started to write link:<code> to Redis
    realtime,   \* Redis clicks:realtime:<code>
    kvExpire,   \* Redis expiry of the realtime keys: the TTL state of each
                \* key (ttl) and the Expire goroutines not yet run (pending)
    AnalyticsQueue, \* handlers.AnalyticsQueue, a buffered channel
    req,        \* the requests in flight, one record per slot
    issued,     \* requests begun so far
    offers,     \* events offered to the queue so far
    dropped,    \* events discarded because the queue was full
    taken,      \* events received from the queue by workers
    abandoned,  \* events of batches whose insert failed
    phase,      \* main(): "running", "cancelled" (cancel() called), "stopped"
    clicks,     \* PostgreSQL clicks: the number of rows equal to each event
    linkStats,  \* PostgreSQL link_stats: short_code -> row, for the rows there are
    topReferrers, \* PostgreSQL top_referrers: <<short_code, referer>> -> click_count
    wk,         \* the workers, one record per goroutine
    clients,    \* SSEBroker.clients: short_code -> set of client channels
    sub,        \* the subscription streams, one record per handler
    mailbox,    \* the client channels, each a buffered channel
    frames,     \* the data frames written to each stream, oldest first
    env         \* the environment of one run: whether PostgreSQL (pgFaulty)
                \* and Redis (kvFaulty) statements may fail on their own, the
                \* short codes, addresses and referers that requests carry,
                \* the number of requests (budget) and the capacity of
                \* the client channels (cap)

frontVars == <<links, L1Cache, kvLink, kvPending, realtime, kvExpire, req,
               issued, offers, dropped>>
backVars == <<abandoned, phase, clicks, linkStats, topReferrers, wk, clients, sub,
             mailbox, frames, env>>
storeVars == <<clicks, linkStats, topReferrers>>
brokerVars == <<clients, sub, mailbox, frames>>
vars == <<links, L1Cache, kvLink, kvPending, realtime, kvExpire, AnalyticsQueue, req,
          issued, offers, dropped, taken, abandoned, phase, clicks, linkStats,
          topReferrers, wk, clients, sub, mailbox, frames, env>>

IdleReq == [pc |-> "idle", handler |-> None, code |-> None, url |-> None,
            ip |-> None, ua |-> None, ref |-> None,
            status |-> 0, loc |-> None,
            hitL1 |-> FALSE, queried |-> FALSE, offered |-> FALSE, bumped |-> FALSE,
            tries |-> 0, path |-> <<>>, shortCode |-> <<>>,
            period |-> None,
            body |-> [TotalClicks |-> 0, UniqueVisitors |-> 0, TopReferrers |-> <<>>]]

\* a request as the handler sees it when it is entered
NewReq(handler, code, ip, ua, ref) ==
    [IdleReq EXCEPT !.handler = handler, !.code = code, !.ip = ip, !.ua = ua, !.ref = ref]

(***************************************************************************)
(* The queue's producer operation: select { case AnalyticsQueue <- e:      *)
(* default: log and drop }.                                                *)
(***************************************************************************)
\* an offer that ignores the capacity
OfferUnbounded(q, e) == Append(q, e)

Offer(q, e) == IF Len(q) < QueueCap THEN Append(q, e) ELSE q

\* getFromL1Cache: L1Cache.Load
getFromL1Cache(shortCode) == L1Cache[shortCode]

\* a fill that stores nothing
SetL1CacheSkip(shortCode, url) == L1Cache

\* a store that evicts the entry it finds present
SetL1CacheEvict(shortCode, url) ==
    [L1Cache EXCEPT ![shortCode] = IF @ = None THEN url ELSE None]

\* SetL1Cache: L1Cache.Store(shortCode, url); the ttl is ignored
SetL1Cache(shortCode, url) == [L1Cache EXCEPT ![shortCode] = url]

\* a lookup that turns a missing row into an empty link instead of an error
GetLinkByCodeNoError(shortCode) ==
    IF links[shortCode] = None THEN "" ELSE links[shortCode]

\* db.GetLinkByCode: the row's original_url, None for NotFoundError
GetLinkByCode(shortCode) == links[shortCode]


(***************************************************************************)
(* Initial state: main() has connected the stores, built the broker and    *)
(* run PrePopulateL1Cache, which either loads every row of links into L1   *)
(* or, when GetAllLinks fails, logs a warning and leaves L1 empty.         *)
(***************************************************************************)
\* a pre-population that caches an empty URL for every code when
\* GetAllLinks fails
PrePopulateL1CacheDefault(ok) == IF ok THEN LinkRows ELSE [c \in Codes |-> ""]

PrePopulateL1Cache(ok) == IF ok THEN LinkRows ELSE [c \in Codes |-> None]

\* no realtime key has a TTL and no Expire goroutine is waiting
NoExpire == [ttl |-> [c \in Codes |-> "none"], pending |-> {}]

FrontInit ==
    /\ links = LinkRows
    /\ kvLink = [c \in Codes |-> None]
    /\ kvPending = {}
    /\ realtime = [c \in Codes |-> 0]
    /\ kvExpire = NoExpire
    /\ AnalyticsQueue = <<>>
    /\ req = [r \in Reqs |-> IdleReq]
    /\ issued = 0
    /\ offers = 0
    /\ dropped = 0
    /\ taken = 0

\* the outcomes of a statement sent to PostgreSQL or to Redis: TRUE when
\* it succeeds, FALSE when it fails (I/O error, timeout)
PgOutcomes == IF env.pgFaulty THEN BOOLEAN ELSE {TRUE}

KvOutcomes == IF env.kvFaulty THEN BOOLEAN ELSE {TRUE}

\* the response written on the request's ResponseWriter
Respond(rq, status, loc) == [rq EXCEPT !.status = status, !.loc = loc]

\* the event a handler builds from the request it serves
EventOf(rq) == ClickEvent(rq.code, rq.ip, rq.ua, rq.ref)

\* RedisDB.Incr after a successful INCR (redis.go 80-90): when the new
\* value is 1 a goroutine is started that will call Expire(key, 60 s)
SpawnExpire(shortCode, val) ==
    IF val = 1 THEN [kvExpire EXCEPT !.pending = @ \cup {shortCode}] ELSE kvExpire

\* that goroutine (redis.go 82-89): Expire with a background context; an
\* error is ignored
RedisDB_Expire ==
    /\ \E shortCode \in kvExpire.pending, ok \in KvOutcomes :
         kvExpire' = [kvExpire EXCEPT !.pending = @ \ {shortCode},
                                      !.ttl[shortCode] = IF ok THEN "60s" ELSE @]
    /\ UNCHANGED <<links, L1Cache, kvLink, kvPending, realtime, AnalyticsQueue, req,
                   issued, offers, dropped, taken, backVars>>

\* redisDB.Incr on clicks:realtime:<code>; a failure is logged and ignored
Incr(shortCode, ok) ==
    IF ok THEN [realtime EXCEPT ![shortCode] = @ + 1] ELSE realtime

\* the server accepts requests until main() calls server.Shutdown
CanBegin(r) == req[r].pc = "idle" /\ issued < env.budget /\ phase # "stopped"

(***************************************************************************)
(* Parsing the short code out of r.URL.Path.  A path is the sequence of    *)
(* its bytes; the functions of package strings are written out.            *)
(***************************************************************************)
PathBytes == {"/", "a", "b"}

Paths == UNION {[1..n -> PathBytes] : n \in 0..MaxPathLen}

\* strings.IndexByte: the index (from 0) of the first c in s, -1 if none
IndexByte(s, c) ==
    IF \E i \in 1..Len(s) : s[i] = c
    THEN (CHOOSE i \in 1..Len(s) : s[i] = c /\ \A j \in 1..(i - 1) : s[j] # c) - 1
    ELSE -1

\* a trim that removes every leading c
RECURSIVE TrimPrefixAll(_, _)
TrimPrefixAll(s, c) ==
    IF Len(s) >= 1 /\ s[1] = c THEN TrimPrefixAll(Tail(s), c) ELSE s

\* strings.TrimPrefix with a prefix of one byte
TrimPrefix(s, c) == IF Len(s) >= 1 /\ s[1] = c THEN Tail(s) ELSE s

\* strings.TrimSuffix with a suffix of one byte
TrimSuffix(s, c) ==
    IF Len(s) >= 1 /\ s[Len(s)] = c THEN SubSeq(s, 1, Len(s) - 1) ELSE s

RECURSIVE Split(_, _)
\* strings.Split with a separator of one byte: the pieces between the
\* separators, one piece (s itself) when there is none
Split(s, c) ==
    LET idx == IndexByte(s, c)
    IN  IF idx < 0 THEN <<s>>
        ELSE <<SubSeq(s, 1, idx)>> \o Split(SubSeq(s, idx + 2, Len(s)), c)

\* utils.ExtractShortCode (validation.go 47-58)
ExtractShortCode(path) ==
    LET trimmed == TrimSuffix(TrimPrefix(path, "/"), "/")
        parts == Split(trimmed, "/")
    IN  IF Len(parts) > 0 THEN parts[1] ELSE <<>>

\* part_002 lines 81-84: path[1:], cut at the first '/'
InlineShortCode(path) ==
    LET shortCode == SubSeq(path, 2, Len(path))
        idx == IndexByte(shortCode, "/")
    IN  IF idx >= 0 THEN SubSeq(shortCode, 1, idx) ELSE shortCode

\* part_002 lines 74-89: a path of at most one byte, or an empty short
\* code, is answered 404; else the handler goes on with the short code
HandleRedirect_Parse(r) ==
    /\ req[r].pc = "parse"
    /\ req[r].handler = "redirect"
    /\ LET path == req[r].path
           shortCode == IF Len(path) <= 1 THEN <<>> ELSE InlineShortCode(path)
       IN  req' = [req EXCEPT ![r] =
                     IF shortCode = <<>>
                     THEN [Respond(req[r], 404, None) EXCEPT !.pc = "done"]
                     ELSE [req[r] EXCEPT !.pc = "parsed", !.shortCode = shortCode]]
    /\ UNCHANGED <<links, L1Cache, kvLink, kvPending, realtime, kvExpire, AnalyticsQueue,
                   issued, offers, dropped, taken, backVars>>

\* redirect.go lines 19-24: utils.ExtractShortCode; an empty short code is
\* answered 404
LegacyRedirect_Parse(r) ==
    /\ req[r].pc = "parse"
    /\ req[r].handler = "legacy"
    /\ LET shortCode == ExtractShortCode(req[r].path)
       IN  req' = [req EXCEPT ![r] =
                     IF shortCode = <<>>
                     THEN [Respond(req[r], 404, None) EXCEPT !.pc = "done"]
                     ELSE [req[r] EXCEPT !.pc = "parsed", !.shortCode = shortCode]]
    /\ UNCHANGED <<links, L1Cache, kvLink, kvPending, realtime, kvExpire, AnalyticsQueue,
                   issued, offers, dropped, taken, backVars>>

(***************************************************************************)
(* HandleRedirect, the handler main() mounts (L1 first, then PostgreSQL).  *)
(***************************************************************************)
\* status written by the L1 handler: w.WriteHeader(http.StatusFound)
RedirectStatus == 302

\* lines 74-94 and, on an L1 hit, 126-140: look the code up in L1; on a hit
\* write Location and 302 and start the analytics goroutine
HandleRedirect_Begin(r) ==
    /\ CanBegin(r)
    /\ \E code \in env.codes, ip \in env.ips, ua \in UserAgents, ref \in env.refs :
         LET rq == NewReq("redirect", code, ip, ua, ref)
             url == getFromL1Cache(code)
         IN  req' = [req EXCEPT ![r] =
                 IF url # None
                 THEN [Respond(rq, RedirectStatus, url) EXCEPT
                          !.pc = "offer", !.url = url, !.hitL1 = TRUE]
                 ELSE [rq EXCEPT !.pc = "query"]]
    /\ issued' = issued + 1
    /\ UNCHANGED <<links, L1Cache, kvLink, kvPending, realtime, kvExpire, AnalyticsQueue,
                   offers, dropped, taken, backVars>>

\* lines 96-113: the L1 miss queries PostgreSQL under a 500 ms deadline
HandleRedirect_Query(r) ==
    /\ req[r].pc = "query"
    /\ req[r].handler = "redirect"
    /\ \E ok \in PgOutcomes :
         LET rq == [req[r] EXCEPT !.queried = TRUE]
             row == GetLinkByCode(rq.code)
         IN  req' = [req EXCEPT ![r] =
                 IF ~ok THEN [Respond(rq, 500, None) EXCEPT !.pc = "idle"]
                 ELSE IF row = None THEN [Respond(rq, 404, None) EXCEPT !.pc = "idle"]
                 ELSE [rq EXCEPT !.pc = "fill", !.url = row]]
    /\ UNCHANGED <<links, L1Cache, kvLink, kvPending, realtime, kvExpire, AnalyticsQueue,
                   issued, offers, dropped, taken, backVars>>

\* lines 115-140: store the URL in L1, start the Redis write-through
\* goroutine, write Location and 302, start the analytics goroutine
HandleRedirect_Fill(r) ==
    /\ req[r].pc = "fill"
    /\ req[r].handler = "redirect"
    /\ L1Cache' = SetL1Cache(req[r].code, req[r].url)
    /\ kvPending' = kvPending \cup {<<req[r].code, req[r].url>>}
    /\ req' = [req EXCEPT ![r] =
                 [Respond(req[r], RedirectStatus, req[r].url) EXCEPT !.pc = "offer"]]
    /\ UNCHANGED <<links, kvLink, realtime, kvExpire, AnalyticsQueue,
                   issued, offers, dropped, taken, backVars>>

\* lines 117-123: the goroutine's redisDB.Set(link:<code>, url, 1h); an
\* error is ignored
RedisWriteThrough ==
    /\ \E p \in kvPending, ok \in KvOutcomes :
         /\ kvPending' = kvPending \ {p}
         /\ kvLink' = IF ok THEN [kvLink EXCEPT ![p[1]] = p[2]] ELSE kvLink
    /\ UNCHANGED <<links, L1Cache, realtime, kvExpire, AnalyticsQueue, req,
                   issued, offers, dropped, taken, backVars>>

\* the three producers share the bookkeeping of one offer
OfferStep(r, next) ==
    /\ AnalyticsQueue' = Offer(AnalyticsQueue, EventOf(req[r]))
    /\ offers' = offers + 1
    /\ dropped' = IF AnalyticsQueue' = AnalyticsQueue THEN dropped + 1 ELSE dropped
    /\ req' = [req EXCEPT ![r].pc = next, ![r].offered = TRUE]
    /\ UNCHANGED <<links, L1Cache, kvLink, kvPending, realtime, kvExpire, issued, taken, backVars>>

IncrStep(r, status, loc) ==
    /\ \E ok \in KvOutcomes :
         /\ realtime' = Incr(req[r].code, ok)
         /\ kvExpire' = IF ok THEN SpawnExpire(req[r].code, realtime'[req[r].code])
                        ELSE kvExpire
         /\ req' = [req EXCEPT ![r] =
                      [Respond(req[r], status, loc) EXCEPT !.pc = "idle", !.bumped = ok]]
    /\ UNCHANGED <<links, L1Cache, kvLink, kvPending, AnalyticsQueue,
                   issued, offers, dropped, taken, backVars>>

\* lines 140-157: the goroutine hashes the visitor and offers the event
HandleRedirect_Offer(r) ==
    /\ req[r].pc = "offer"
    /\ req[r].handler = "redirect"
    /\ OfferStep(r, "incr")

\* lines 159-164: the goroutine bumps the realtime counter
HandleRedirect_Incr(r) ==
    /\ req[r].pc = "incr"
    /\ req[r].handler = "redirect"
    /\ IncrStep(r, req[r].status, req[r].loc)

(***************************************************************************)
(* HandleRedirect of backend/handlers/redirect.go (Redis first, then       *)
(* PostgreSQL; analytics inline; http.Redirect last).                      *)
(***************************************************************************)
\* status written by redirect.go: http.StatusMovedPermanently
LegacyRedirectStatus == 301

\* lines 18-29: redisDB.Get(link:<code>); a miss or an error falls through
LegacyRedirect_Begin(r) ==
    /\ CanBegin(r)
    /\ \E code \in env.codes, ip \in env.ips, ua \in UserAgents, ref \in env.refs, ok \in KvOutcomes :
         LET rq == NewReq("legacy", code, ip, ua, ref)
         IN  req' = [req EXCEPT ![r] =
                 IF ok /\ kvLink[code] # None
                 THEN [rq EXCEPT !.pc = "offer", !.url = kvLink[code]]
                 ELSE [rq EXCEPT !.pc = "query"]]
    /\ issued' = issued + 1
    /\ UNCHANGED <<links, L1Cache, kvLink, kvPending, realtime, kvExpire, AnalyticsQueue,
                   offers, dropped, taken, backVars>>

\* lines 30-42: the cache miss queries PostgreSQL
LegacyRedirect_Query(r) ==
    /\ req[r].pc = "query"
    /\ req[r].handler = "legacy"
    /\ \E ok \in PgOutcomes :
         LET rq == [req[r] EXCEPT !.queried = TRUE]
             row == GetLinkByCode(rq.code)
         IN  req' = [req EXCEPT ![r] =
                 IF ~ok THEN [Respond(rq, 500, None) EXCEPT !.pc = "idle"]
                 ELSE IF row = None THEN [Respond(rq, 404, None) EXCEPT !.pc = "idle"]
                 ELSE [rq EXCEPT !.pc = "set", !.url = row]]
    /\ UNCHANGED <<links, L1Cache, kvLink, kvPending, realtime, kvExpire, AnalyticsQueue,
                   issued, offers, dropped, taken, backVars>>

\* lines 44-47: redisDB.Set(link:<code>, url, 1h) on the request's
\* goroutine; a failure is logged
LegacyRedirect_Set(r) ==
    /\ req[r].pc = "set"
    /\ req[r].handler = "legacy"
    /\ \E ok \in KvOutcomes :
         kvLink' = IF ok THEN [kvLink EXCEPT ![req[r].code] = req[r].url] ELSE kvLink
    /\ req' = [req EXCEPT ![r].pc = "offer"]
    /\ UNCHANGED <<links, L1Cache, kvPending, realtime, kvExpire, AnalyticsQueue,
                   issued, offers, dropped, taken, backVars>>

\* lines 50-63: the non-blocking offer, before the response
LegacyRedirect_Offer(r) ==
    /\ req[r].pc = "offer"
    /\ req[r].handler = "legacy"
    /\ OfferStep(r, "incr")

\* lines 65-72: the counter bump, then http.Redirect with 301
LegacyRedirect_Incr(r) ==
    /\ req[r].pc = "incr"
    /\ req[r].handler = "legacy"
    /\ IncrStep(r, LegacyRedirectStatus, req[r].url)

(***************************************************************************)
(* TrackClick, POST /api/track/<code>.                                     *)
(***************************************************************************)
\* lines 17-54: parse the code and verify that the link exists
TrackClick_Begin(r) ==
    /\ CanBegin(r)
    /\ \E code \in env.codes, ip \in env.ips, ua \in UserAgents, ref \in env.refs, ok \in PgOutcomes :
         LET rq == [NewReq("track", code, ip, ua, ref) EXCEPT !.queried = TRUE]
             row == GetLinkByCode(code)
         IN  req' = [req EXCEPT ![r] =
                 IF ~ok THEN [Respond(rq, 500, None) EXCEPT !.pc = "idle"]
                 ELSE IF row = None THEN [Respond(rq, 404, None) EXCEPT !.pc = "idle"]
                 ELSE [rq EXCEPT !.pc = "offer", !.url = row]]
    /\ issued' = issued + 1
    /\ UNCHANGED <<links, L1Cache, kvLink, kvPending, realtime, kvExpire, AnalyticsQueue,
                   offers, dropped, taken, backVars>>

\* lines 56-69: the non-blocking offer
TrackClick_Offer(r) ==
    /\ req[r].pc = "offer"
    /\ req[r].handler = "track"
    /\ OfferStep(r, "incr")

\* lines 71-80: the counter bump, then 200 {"status":"tracked"}
TrackClick_Incr(r) ==
    /\ req[r].pc = "incr"
    /\ req[r].handler = "track"
    /\ IncrStep(r, 200, None)

(***************************************************************************)
(* CreateLink, POST /api/links (handlers/links.go).                        *)
(***************************************************************************)
\* the URLs a client submits, with the scheme url.Parse finds in each
SubmittedURLs == {"https://ex.com/new", "http://ex.com/NEW", "ftp://ex.com/f"}

Scheme == [u \in SubmittedURLs |->
             IF u = "https://ex.com/new" THEN "https"
             ELSE IF u = "http://ex.com/NEW" THEN "http" ELSE "ftp"]

\* utils.IsValidURL: the URL parses and its scheme is http or https
IsValidURL(u) == Scheme[u] \in {"http", "https"}

\* the retry bound of CreateLink's loop
maxRetries == 5

\* a test for the last attempt that is off by one
LastAttemptOffByOne(i) == i = maxRetries

\* links.go line 81: i == maxRetries-1
LastAttempt(i) == i = maxRetries - 1

\* an insert that stores the URL trimmed to its host
InsertLinkHostOnly(shortCode, url) == [links EXCEPT ![shortCode] = "https://ex.com"]

\* db.CreateLink: INSERT INTO links (short_code, original_url, ...)
InsertLink(shortCode, url) == [links EXCEPT ![shortCode] = url]

\* lines 47-62: decode the body and validate the URL
CreateLink_Begin(r) ==
    /\ CanBegin(r)
    /\ \E u \in SubmittedURLs :
         LET rq == [NewReq("create", None, None, None, None) EXCEPT !.url = u]
         IN  req' = [req EXCEPT ![r] =
                 IF IsValidURL(u) THEN [rq EXCEPT !.pc = "insert"]
                 ELSE Respond(rq, 400, None)]
    /\ issued' = issued + 1
    /\ UNCHANGED <<links, L1Cache, kvLink, kvPending, realtime, kvExpire, AnalyticsQueue,
                   offers, dropped, taken, backVars>>

\* lines 67-86, one iteration: generate a code and insert; the insert fails
\* on a duplicate short_code (UNIQUE) or on any other error; the last
\* failure answers 500
CreateLink_Attempt(r) ==
    /\ req[r].pc = "insert"
    /\ req[r].handler = "create"
    /\ \E shortCode \in Codes, ok \in PgOutcomes :
         LET i == req[r].tries
             rq == [req[r] EXCEPT !.tries = i + 1, !.code = shortCode]
         IN  IF ok /\ links[shortCode] = None
             THEN /\ links' = InsertLink(shortCode, req[r].url)
                  /\ req' = [req EXCEPT ![r] = [rq EXCEPT !.pc = "created"]]
             ELSE /\ links' = links
                  /\ req' = [req EXCEPT ![r] =
                        IF LastAttempt(i)
                        THEN [Respond(rq, 500, None) EXCEPT !.pc = "idle", !.code = None]
                        ELSE [rq EXCEPT !.code = None]]
    /\ UNCHANGED <<L1Cache, kvLink, kvPending, realtime, kvExpire, AnalyticsQueue,
                   issued, offers, dropped, taken, backVars>>

\* lines 88-99: answer 201 with the link's short code
CreateLink_Respond(r) ==
    /\ req[r].pc = "created"
    /\ req[r].handler = "create"
    /\ req' = [req EXCEPT ![r] = [Respond(req[r], 201, None) EXCEPT !.pc = "idle"]]
    /\ UNCHANGED <<links, L1Cache, kvLink, kvPending, realtime, kvExpire, AnalyticsQueue,
                   issued, offers, dropped, taken, backVars>>

(***************************************************************************)
(* PostgreSQL statements used by the workers (db/postgres.go).             *)
(***************************************************************************)
EventDomain == {ClickEvent(c, ip, ua, ref) :
                  c \in Codes, ip \in IPs, ua \in UserAgents, ref \in Referers}

Indices(events, shortCode) ==
    {i \in 1..Len(events) : events[i].ShortCode = shortCode}

\* BatchInsertClickEvents: one transaction inserting a row per event
BatchInsertClickEvents(events) ==
    [e \in EventDomain |->
        clicks[e] + Cardinality({i \in 1..Len(events) : events[i] = e})]

ZeroStats == [TotalClicks |-> 0, UniqueVisitors |-> 0]

\* GetLinkStats: the row, or zeroes (and no error) when there is none
GetLinkStats(shortCode) ==
    IF shortCode \in DOMAIN linkStats THEN linkStats[shortCode] ELSE ZeroStats

\* RecalculateUniqueVisitors: COUNT(DISTINCT visitor_hash) over clicks
RecalculateUniqueVisitors(shortCode) ==
    Cardinality({e.VisitorHash :
                   e \in {x \in EventDomain : x.ShortCode = shortCode /\ clicks[x] > 0}})

\* a faulty upsert that overwrites total_clicks instead of adding to it
UpdateLinkStatsOverwrite(shortCode, totalClicks, uniqueVisitors) ==
    [c \in DOMAIN linkStats \cup {shortCode} |->
        IF c = shortCode
        THEN [TotalClicks |-> totalClicks, UniqueVisitors |-> uniqueVisitors]
        ELSE linkStats[c]]

\* UpdateLinkStats: INSERT ... ON CONFLICT DO UPDATE SET total_clicks =
\* link_stats.total_clicks + $2, unique_visitors = $3
UpdateLinkStats(shortCode, totalClicks, uniqueVisitors) ==
    [c \in DOMAIN linkStats \cup {shortCode} |->
        IF c # shortCode THEN linkStats[c]
        ELSE IF c \in DOMAIN linkStats
        THEN [TotalClicks |-> linkStats[c].TotalClicks + totalClicks,
              UniqueVisitors |-> uniqueVisitors]
        ELSE [TotalClicks |-> totalClicks, UniqueVisitors |-> uniqueVisitors]]

\* a faulty upsert that sets click_count to $3 instead of adding it
UpdateTopReferrersOverwrite(shortCode, referer, count) ==
    [topReferrers EXCEPT ![<<shortCode, referer>>] = count]

\* UpdateTopReferrers: INSERT ... ON CONFLICT DO UPDATE SET click_count =
\* top_referrers.click_count + $3 (0 stands for no row)
UpdateTopReferrers(shortCode, referer, count) ==
    [topReferrers EXCEPT ![<<shortCode, referer>>] = @ + count]

\* a statement run with the workers' ctx fails once cancel() has been called
CtxLive == phase = "running"

(***************************************************************************)
(* GetAnalytics, GET /api/analytics/<code>?period=...  The clicks over     *)
(* time, the click rate and the peak hour depend on timestamps and are     *)
(* left out of the response.                                               *)
(***************************************************************************)
\* values of the period parameter: absent, the three accepted, another
Periods == {"", "24h", "7d", "30d", "1y"}

\* lines 311-327: an absent period counts as 24h
ValidPeriod(periodStr) == periodStr \in {"", "24h", "7d", "30d"}

\* the referers with a row in top_referrers for the short code
ReferrerRows(shortCode) ==
    {ref \in Referers : topReferrers[<<shortCode, ref>>] > 0}

\* the first n elements of q
FirstN(q, n) == SubSeq(q, 1, IF Len(q) < n THEN Len(q) ELSE n)

\* GetTopReferrers (postgres.go 233-260): SELECT referer, click_count ...
\* WHERE short_code = $1 ORDER BY click_count DESC LIMIT $2.  The query
\* leaves the order of rows with equal click_count to PostgreSQL, so the
\* results it can give are these
GetTopReferrers(shortCode, limit) ==
    LET rows == ReferrerRows(shortCode)
        n == Cardinality(rows)
        count(ref) == topReferrers[<<shortCode, ref>>]
        orders == {q \in [1..n -> rows] :
                     /\ \A i, j \in 1..n : i # j => q[i] # q[j]
                     /\ \A i, j \in 1..n : i < j => count(q[i]) >= count(q[j])}
    IN  {FirstN([i \in 1..n |-> [Referer |-> q[i], ClickCount |-> count(q[i])]], limit) :
            q \in orders}

\* lines 293-327: the short code is taken from the path, the period is
\* checked; the handler looks up no link
GetAnalytics_Begin(r) ==
    /\ CanBegin(r)
    /\ \E code \in env.codes, periodStr \in Periods :
         LET rq == [NewReq("analytics", code, None, None, None) EXCEPT !.period = periodStr]
         IN  req' = [req EXCEPT ![r] =
                       IF ValidPeriod(periodStr) THEN [rq EXCEPT !.pc = "stats"]
                       ELSE [Respond(rq, 400, None) EXCEPT !.pc = "idle"]]
    /\ issued' = issued + 1
    /\ UNCHANGED <<links, L1Cache, kvLink, kvPending, realtime, kvExpire, AnalyticsQueue,
                   offers, dropped, taken, backVars>>

\* lines 329-338: GetLinkStats; on an error the stats count as zero
GetAnalytics_Stats(r) ==
    /\ req[r].pc = "stats"
    /\ req[r].handler = "analytics"
    /\ \E ok \in PgOutcomes :
         LET stats == IF ok THEN GetLinkStats(req[r].code) ELSE ZeroStats
         IN  req' = [req EXCEPT ![r] =
                       [req[r] EXCEPT
                          !.pc = IF stats.TotalClicks > 0 THEN "recount" ELSE "referrers",
                          !.body = [@ EXCEPT !.TotalClicks = stats.TotalClicks,
                                             !.UniqueVisitors = stats.UniqueVisitors]]]
    /\ UNCHANGED <<links, L1Cache, kvLink, kvPending, realtime, kvExpire, AnalyticsQueue,
                   issued, offers, dropped, taken, backVars>>

\* lines 340-346: with clicks counted, the unique visitors are recounted;
\* on an error the stored number stays
GetAnalytics_Recount(r) ==
    /\ req[r].pc = "recount"
    /\ req[r].handler = "analytics"
    /\ \E ok \in PgOutcomes :
         req' = [req EXCEPT ![r] =
                   [req[r] EXCEPT
                      !.pc = "referrers",
                      !.body = IF ok
                               THEN [@ EXCEPT !.UniqueVisitors =
                                                  RecalculateUniqueVisitors(req[r].code)]
                               ELSE @]]
    /\ UNCHANGED <<links, L1Cache, kvLink, kvPending, realtime, kvExpire, AnalyticsQueue,
                   issued, offers, dropped, taken, backVars>>

\* lines 355-411: GetTopReferrers with the limit (on an error the list is
\* empty), then the response, 200 with the JSON body
GetAnalytics_Referrers(r) ==
    /\ req[r].pc = "referrers"
    /\ req[r].handler = "analytics"
    /\ \E ok \in PgOutcomes, result \in GetTopReferrers(req[r].code, TopLimit) :
         req' = [req EXCEPT ![r] =
                   [Respond(req[r], 200, None) EXCEPT
                      !.pc = "idle",
                      !.body = [@ EXCEPT !.TopReferrers = IF ok THEN result ELSE <<>>]]]
    /\ UNCHANGED <<links, L1Cache, kvLink, kvPending, realtime, kvExpire, AnalyticsQueue,
                   issued, offers, dropped, taken, backVars>>

(***************************************************************************)
(* flushBatch's grouping loop (analytics_worker.go lines 91-115).          *)
(***************************************************************************)
RECURSIVE codeStatsTotal(_, _)
\* codeStats[shortCode].totalClicks after the loop
codeStatsTotal(events, shortCode) ==
    IF events = <<>> THEN 0
    ELSE (IF Head(events).ShortCode = shortCode THEN 1 ELSE 0)
         + codeStatsTotal(Tail(events), shortCode)

\* codeStats[shortCode].uniqueVisitors after the loop
codeStatsUnique(events, shortCode) ==
    {events[i].VisitorHash : i \in Indices(events, shortCode)}

\* referrerStats[shortCode][referer] after the loop; empty referers are
\* not counted
referrerStats(events, shortCode, referer) ==
    Cardinality({i \in Indices(events, shortCode) :
                   events[i].Referer = referer /\ referer # ""})

\* the keys of codeStats and of referrerStats[shortCode]
codeStatsKeys(events) == {events[i].ShortCode : i \in 1..Len(events)}

referrerKeys(events, shortCode) ==
    {events[i].Referer : i \in Indices(events, shortCode)} \ {""}

(***************************************************************************)
(* The workers (workers/analytics_worker.go).                              *)
(***************************************************************************)
\* timer is the worker's ticker: "free" where time is not followed (the
\* ticker may fire at any moment), else "armed" or "fired" (a tick waits in
\* ticker.C); since counts the clock units since the ticker was made or
\* last fired, age those since the first event of the batch arrived
IdleWorker == [pc |-> "select", batch |-> <<>>, after |-> "select",
               todo |-> {}, cur |-> None, curUnique |-> 0, uniq |-> 0,
               refs |-> {}, total |-> 0, targets |-> {}, tail |-> "none",
               timer |-> "free", since |-> 0, age |-> 0, liveAtEntry |-> FALSE]

\* the worker on entering flushBatch; it goes back to `after` on return.
\* liveAtEntry records whether ctx was live when flushBatch was entered
EnterFlush(w, batch, after) ==
    [wk[w] EXCEPT !.pc = "insert", !.batch = batch, !.after = after,
                  !.liveAtEntry = CtxLive]

\* flushBatch has returned: the select loop resets the batch (batch[:0]),
\* the shutdown case returns from worker
LeaveFlush(rec) ==
    [rec EXCEPT !.pc = rec.after, !.batch = <<>>, !.after = "select",
                !.todo = {}, !.cur = None, !.curUnique = 0, !.uniq = 0,
                !.refs = {}, !.total = 0, !.targets = {}, !.age = 0,
                !.liveAtEntry = FALSE]

\* the end of one iteration of `for shortCode, stats := range codeStats`
NextCode(rec) ==
    IF rec.todo = {} THEN LeaveFlush(rec)
    ELSE [rec EXCEPT !.pc = "stats", !.cur = None, !.curUnique = 0, !.uniq = 0,
                     !.refs = {}, !.total = 0, !.targets = {}]

\* a receive that leaves the event in the queue
worker_ReceiveKeep(w) ==
    /\ wk[w].pc = "select"
    /\ AnalyticsQueue # <<>>
    /\ LET batch == Append(wk[w].batch, Head(AnalyticsQueue))
       IN  wk' = [wk EXCEPT ![w] =
                    IF Len(batch) >= BatchSize
                    THEN EnterFlush(w, batch, "select")
                    ELSE [wk[w] EXCEPT !.batch = batch]]
    /\ AnalyticsQueue' = AnalyticsQueue
    /\ taken' = taken + 1
    /\ UNCHANGED <<frontVars, storeVars, brokerVars, phase, abandoned, env>>

\* lines 50-56: receive an event; a full batch is flushed
worker_Receive(w) ==
    /\ wk[w].pc = "select"
    /\ AnalyticsQueue # <<>>
    /\ LET batch == Append(wk[w].batch, Head(AnalyticsQueue))
       IN  wk' = [wk EXCEPT ![w] =
                    IF Len(batch) >= BatchSize
                    THEN EnterFlush(w, batch, "select")
                    ELSE [wk[w] EXCEPT !.batch = batch]]
    /\ AnalyticsQueue' = Tail(AnalyticsQueue)
    /\ taken' = taken + 1
    /\ UNCHANGED <<frontVars, storeVars, brokerVars, phase, abandoned, env>>

\* a tick waits in ticker.C
TickerReady(w) == wk[w].timer # "armed"

\* the ticker after its tick has been received
ConsumeTick(timer) == IF timer = "fired" THEN "armed" ELSE timer

\* a ticker case that flushes full batches only
worker_TickFullOnly(w) ==
    /\ wk[w].pc = "select"
    /\ TickerReady(w)
    /\ Len(wk[w].batch) >= BatchSize
    /\ wk' = [wk EXCEPT ![w] =
                [EnterFlush(w, wk[w].batch, "select")
                    EXCEPT !.timer = ConsumeTick(wk[w].timer)]]
    /\ UNCHANGED <<frontVars, storeVars, brokerVars, AnalyticsQueue, taken,
                   phase, abandoned, env>>

\* lines 58-62: the ticker fires; a non-empty batch is flushed
worker_Tick(w) ==
    /\ wk[w].pc = "select"
    /\ TickerReady(w)
    /\ wk[w].batch # <<>>
    /\ wk' = [wk EXCEPT ![w] =
                [EnterFlush(w, wk[w].batch, "select")
                    EXCEPT !.timer = ConsumeTick(wk[w].timer)]]
    /\ UNCHANGED <<frontVars, storeVars, brokerVars, AnalyticsQueue, taken,
                   phase, abandoned, env>>

\* lines 58-62 with an empty batch: the tick is received and nothing is
\* flushed
worker_TickEmpty(w) ==
    /\ wk[w].pc = "select"
    /\ wk[w].timer = "fired"
    /\ wk[w].batch = <<>>
    /\ wk' = [wk EXCEPT ![w].timer = "armed"]
    /\ UNCHANGED <<frontVars, storeVars, brokerVars, AnalyticsQueue, taken,
                   phase, abandoned, env>>

\* line 45, time.NewTicker(BatchTimeout): the ticker made when the worker
\* starts fires every BatchTimeout; its channel holds one tick, a tick that
\* finds it full is dropped
ticker_Fire(w) ==
    /\ wk[w].timer # "free"
    /\ wk[w].since = BatchTimeout
    /\ wk' = [wk EXCEPT ![w].timer = "fired", ![w].since = 0]
    /\ UNCHANGED <<frontVars, storeVars, brokerVars, AnalyticsQueue, taken,
                   phase, abandoned, env>>

\* the ages the model tells apart: up to one unit past BatchTimeout
MaxAge == BatchTimeout + 1

\* one unit of time passes for every worker; a ticker that is due fires
\* first
ticker_Elapse ==
    /\ \A w \in Workers : wk[w].timer # "free" /\ wk[w].since < BatchTimeout
    /\ wk' = [w \in Workers |->
                [wk[w] EXCEPT !.since = @ + 1,
                              !.age = IF wk[w].batch = <<>> THEN 0
                                      ELSE IF @ < MaxAge THEN @ + 1 ELSE @]]
    /\ UNCHANGED <<frontVars, storeVars, brokerVars, AnalyticsQueue, taken,
                   phase, abandoned, env>>

\* a ctx.Done() case without its return: the batch is flushed and the loop
\* goes on
worker_DoneNoReturn(w) ==
    /\ wk[w].pc = "select"
    /\ ~CtxLive
    /\ wk[w].batch # <<>>
    /\ wk' = [wk EXCEPT ![w] = EnterFlush(w, wk[w].batch, "select")]
    /\ UNCHANGED <<frontVars, storeVars, brokerVars, AnalyticsQueue, taken,
                   phase, abandoned, env>>

\* lines 64-69: ctx.Done(); a non-empty batch is flushed, then the worker
\* returns
worker_Done(w) ==
    /\ wk[w].pc = "select"
    /\ ~CtxLive
    /\ wk' = [wk EXCEPT ![w] =
                IF wk[w].batch # <<>>
                THEN EnterFlush(w, wk[w].batch, "exit")
                ELSE [wk[w] EXCEPT !.pc = "exit"]]
    /\ UNCHANGED <<frontVars, storeVars, brokerVars, AnalyticsQueue, taken,
                   phase, abandoned, env>>

\* a batch insert whose failure is logged without returning: the
\* aggregation runs for a batch that was not persisted
flushBatch_InsertGoOn(w) ==
    /\ wk[w].pc = "insert"
    /\ \E ok \in PgOutcomes :
         LET rec == [wk[w] EXCEPT !.tail =
                        IF wk[w].after # "exit" THEN @
                        ELSE IF ok /\ CtxLive THEN "flushed" ELSE "failed"]
         IN  /\ wk' = [wk EXCEPT ![w] =
                         NextCode([rec EXCEPT !.todo = codeStatsKeys(rec.batch)])]
             /\ IF ok /\ CtxLive
                THEN /\ clicks' = BatchInsertClickEvents(rec.batch)
                     /\ abandoned' = abandoned
                ELSE /\ clicks' = clicks
                     /\ abandoned' = abandoned + Len(rec.batch)
    /\ UNCHANGED <<frontVars, linkStats, topReferrers, brokerVars,
                   AnalyticsQueue, taken, phase, env>>

\* a batch insert outside a transaction: when it fails, the row of the
\* first event has been written already and stays
flushBatch_InsertNoTx(w) ==
    /\ wk[w].pc = "insert"
    /\ \E ok \in PgOutcomes :
         LET rec == [wk[w] EXCEPT !.tail =
                        IF wk[w].after # "exit" THEN @
                        ELSE IF ok /\ CtxLive THEN "flushed" ELSE "failed"]
         IN  IF ok /\ CtxLive
             THEN /\ clicks' = BatchInsertClickEvents(rec.batch)
                  /\ wk' = [wk EXCEPT ![w] =
                              NextCode([rec EXCEPT !.todo = codeStatsKeys(rec.batch)])]
                  /\ abandoned' = abandoned
             ELSE /\ clicks' = BatchInsertClickEvents(<<Head(rec.batch)>>)
                  /\ wk' = [wk EXCEPT ![w] = LeaveFlush(rec)]
                  /\ abandoned' = abandoned + Len(rec.batch)
    /\ UNCHANGED <<frontVars, linkStats, topReferrers, brokerVars,
                   AnalyticsQueue, taken, phase, env>>

\* lines 75-89 and BatchInsertClickEvents (postgres.go 139-170): the batch
\* insert is one transaction, rolled back on any error (defer tx.Rollback);
\* on an error flushBatch logs and returns, the batch is abandoned
flushBatch_Insert(w) ==
    /\ wk[w].pc = "insert"
    /\ \E ok \in PgOutcomes :
         LET rec == [wk[w] EXCEPT !.tail =
                        IF wk[w].after # "exit" THEN @
                        ELSE IF ok /\ CtxLive THEN "flushed" ELSE "failed"]
         IN  IF ok /\ CtxLive
             THEN /\ clicks' = BatchInsertClickEvents(rec.batch)
                  /\ wk' = [wk EXCEPT ![w] =
                              NextCode([rec EXCEPT !.todo = codeStatsKeys(rec.batch)])]
                  /\ abandoned' = abandoned
             ELSE /\ clicks' = clicks
                  /\ wk' = [wk EXCEPT ![w] = LeaveFlush(rec)]
                  /\ abandoned' = abandoned + Len(rec.batch)
    /\ UNCHANGED <<frontVars, linkStats, topReferrers, brokerVars,
                   AnalyticsQueue, taken, phase, env>>

\* lines 118-128: pick the next short code of the range loop and read its
\* stats; on an error the current stats count as zero
flushBatch_GetStats(w) ==
    /\ wk[w].pc = "stats"
    /\ \E shortCode \in wk[w].todo, ok \in PgOutcomes :
         LET currentStats == IF ok /\ CtxLive THEN GetLinkStats(shortCode) ELSE ZeroStats
         IN  wk' = [wk EXCEPT ![w] =
                      [wk[w] EXCEPT !.pc = "recount", !.cur = shortCode,
                                    !.todo = @ \ {shortCode},
                                    !.curUnique = currentStats.UniqueVisitors]]
    /\ UNCHANGED <<frontVars, storeVars, brokerVars, AnalyticsQueue, taken,
                   phase, abandoned, env>>

\* lines 130-137: the recount; on an error, current + distinct in the batch
flushBatch_Recount(w) ==
    /\ wk[w].pc = "recount"
    /\ \E ok \in PgOutcomes :
         wk' = [wk EXCEPT ![w] =
                  [wk[w] EXCEPT !.pc = "upsert", !.curUnique = 0,
                      !.uniq = IF ok /\ CtxLive
                               THEN RecalculateUniqueVisitors(wk[w].cur)
                               ELSE wk[w].curUnique
                                    + Cardinality(codeStatsUnique(wk[w].batch, wk[w].cur))]]
    /\ UNCHANGED <<frontVars, storeVars, brokerVars, AnalyticsQueue, taken,
                   phase, abandoned, env>>

\* a faulty upsert step that returns from flushBatch on an error
flushBatch_UpdateStatsAbort(w) ==
    /\ wk[w].pc = "upsert"
    /\ \E ok \in PgOutcomes :
         IF ok /\ CtxLive
         THEN /\ linkStats' = UpdateLinkStats(wk[w].cur,
                                              codeStatsTotal(wk[w].batch, wk[w].cur),
                                              wk[w].uniq)
              /\ wk' = [wk EXCEPT ![w] =
                          [wk[w] EXCEPT !.pc = "refs", !.uniq = 0,
                                        !.refs = referrerKeys(wk[w].batch, wk[w].cur)]]
         ELSE /\ linkStats' = linkStats
              /\ wk' = [wk EXCEPT ![w] = LeaveFlush(wk[w])]
    /\ UNCHANGED <<frontVars, clicks, topReferrers, brokerVars, AnalyticsQueue,
                   taken, phase, abandoned, env>>

\* lines 139-142: the stats upsert; an error is logged and the loop goes on
flushBatch_UpdateStats(w) ==
    /\ wk[w].pc = "upsert"
    /\ \E ok \in PgOutcomes :
         linkStats' = IF ok /\ CtxLive
                      THEN UpdateLinkStats(wk[w].cur,
                                           codeStatsTotal(wk[w].batch, wk[w].cur),
                                           wk[w].uniq)
                      ELSE linkStats
    /\ wk' = [wk EXCEPT ![w] =
                [wk[w] EXCEPT !.pc = "refs", !.uniq = 0,
                              !.refs = referrerKeys(wk[w].batch, wk[w].cur)]]
    /\ UNCHANGED <<frontVars, clicks, topReferrers, brokerVars, AnalyticsQueue,
                   taken, phase, abandoned, env>>

\* lines 144-151: one upsert per referer of the short code
flushBatch_UpdateReferrer(w) ==
    /\ wk[w].pc = "refs"
    /\ \E referer \in wk[w].refs, ok \in PgOutcomes :
         /\ topReferrers' =
              IF ok /\ CtxLive
              THEN UpdateTopReferrers(wk[w].cur, referer,
                                      referrerStats(wk[w].batch, wk[w].cur, referer))
              ELSE topReferrers
         /\ wk' = [wk EXCEPT ![w].refs = @ \ {referer}]
    /\ UNCHANGED <<frontVars, clicks, linkStats, brokerVars, AnalyticsQueue,
                   taken, phase, abandoned, env>>

\* lines 153-155: read the stats back; on an error nothing is broadcast
flushBatch_ReadBack(w) ==
    /\ wk[w].pc = "refs"
    /\ wk[w].refs = {}
    /\ \E ok \in PgOutcomes :
         wk' = [wk EXCEPT ![w] =
                  IF ok /\ CtxLive
                  THEN [wk[w] EXCEPT !.pc = "broadcast",
                                     !.total = GetLinkStats(wk[w].cur).TotalClicks]
                  ELSE NextCode(wk[w])]
    /\ UNCHANGED <<frontVars, storeVars, brokerVars, AnalyticsQueue, taken,
                   phase, abandoned, env>>

(***************************************************************************)
(* SSEBroker (AddClient, RemoveClient, Broadcast).  AddClient and          *)
(* RemoveClient hold mu.Lock, Broadcast holds mu.RLock while it ranges     *)
(* over the clients of the short code.                                     *)
(***************************************************************************)
AddClient(shortCode, ch) ==
    [c \in DOMAIN clients \cup {shortCode} |->
        IF c = shortCode
        THEN (IF c \in DOMAIN clients THEN clients[c] ELSE {}) \cup {ch}
        ELSE clients[c]]

\* a RemoveClient that leaves the last channel of a short code in place
RemoveClientKeepLast(shortCode, ch) ==
    IF shortCode \notin DOMAIN clients THEN clients
    ELSE LET rest == clients[shortCode] \ {ch}
         IN  IF rest = {} THEN clients
             ELSE [clients EXCEPT ![shortCode] = rest]

\* a RemoveClient that keeps the entry of a short code without channels
RemoveClientKeepEntry(shortCode, ch) ==
    IF shortCode \notin DOMAIN clients THEN clients
    ELSE [clients EXCEPT ![shortCode] = @ \ {ch}]

RemoveClient(shortCode, ch) ==
    IF shortCode \notin DOMAIN clients THEN clients
    ELSE LET rest == clients[shortCode] \ {ch}
         IN  IF rest = {}
             THEN [c \in DOMAIN clients \ {shortCode} |-> clients[c]]
             ELSE [clients EXCEPT ![shortCode] = rest]

\* a Broadcast that reaches the clients of every short code
BroadcastTargetsAll(shortCode) == UNION {clients[c] : c \in DOMAIN clients}

\* the channels Broadcast ranges over: b.clients[shortCode]
BroadcastTargets(shortCode) ==
    IF shortCode \in DOMAIN clients THEN clients[shortCode] ELSE {}

\* a send that overwrites the newest message of a full channel
TrySendOverwrite(box, data) ==
    IF Len(box) < env.cap THEN Append(box, data)
    ELSE IF Len(box) = 0 THEN box
    ELSE Append(SubSeq(box, 1, Len(box) - 1), data)

\* a send that puts the message ahead of the ones waiting in the channel
TrySendFront(box, data) == IF Len(box) < env.cap THEN <<data>> \o box ELSE box

\* select { case ch <- data: default: }
TrySend(box, data) == IF Len(box) < env.cap THEN Append(box, data) ELSE box

\* some Broadcast holds mu.RLock
ReadLocked == \E w \in Workers : wk[w].pc = "sending"

\* the payload of a broadcast (timestamp left out)
Payload(shortCode, total) == [short_code |-> shortCode, total_clicks |-> total]

\* lines 156-163 and Broadcast's lookup: take the read lock and the set of
\* channels; with no client the call returns at once
flushBatch_Broadcast(w) ==
    /\ wk[w].pc = "broadcast"
    /\ LET targets == BroadcastTargets(wk[w].cur)
       IN  wk' = [wk EXCEPT ![w] =
                    IF targets = {} THEN NextCode(wk[w])
                    ELSE [wk[w] EXCEPT !.pc = "sending", !.targets = targets]]
    /\ UNCHANGED <<frontVars, storeVars, brokerVars, AnalyticsQueue, taken,
                   phase, abandoned, env>>

\* a Broadcast loop whose send is a plain `ch <- data`: it waits for room
Broadcast_SendBlocking(w) ==
    /\ wk[w].pc = "sending"
    /\ \E ch \in wk[w].targets :
         /\ Len(mailbox[ch]) < env.cap
         /\ mailbox' = [mailbox EXCEPT ![ch] =
                          Append(@, Payload(wk[w].cur, wk[w].total))]
         /\ wk' = [wk EXCEPT ![w] =
                     IF wk[w].targets = {ch} THEN NextCode(wk[w])
                     ELSE [wk[w] EXCEPT !.targets = @ \ {ch}]]
    /\ UNCHANGED <<frontVars, storeVars, clients, sub, frames, AnalyticsQueue,
                   taken, phase, abandoned, env>>

\* Broadcast's loop: one non-blocking send; after the last one the lock is
\* released and the range loop of flushBatch goes on
Broadcast_Send(w) ==
    /\ wk[w].pc = "sending"
    /\ \E ch \in wk[w].targets :
         /\ mailbox' = [mailbox EXCEPT ![ch] =
                          TrySend(@, Payload(wk[w].cur, wk[w].total))]
         /\ wk' = [wk EXCEPT ![w] =
                     IF wk[w].targets = {ch} THEN NextCode(wk[w])
                     ELSE [wk[w] EXCEPT !.targets = @ \ {ch}]]
    /\ UNCHANGED <<frontVars, storeVars, clients, sub, frames, AnalyticsQueue,
                   taken, phase, abandoned, env>>

(***************************************************************************)
(* The methods of SSEBroker called by any goroutine with any argument, and *)
(* the receive on a client channel by the goroutine that made it.          *)
(***************************************************************************)
\* AddClient(shortCode, ch), under mu.Lock
SSEBroker_AddClient(ch) ==
    /\ ~ReadLocked
    /\ \E shortCode \in env.codes : clients' = AddClient(shortCode, ch)
    /\ UNCHANGED <<frontVars, storeVars, sub, mailbox, frames, AnalyticsQueue,
                   taken, phase, abandoned, wk, env>>

\* a RemoveClient that does not wait for the Broadcasts under way
SSEBroker_RemoveClientNoLock(ch) ==
    /\ \E shortCode \in env.codes : clients' = RemoveClient(shortCode, ch)
    /\ UNCHANGED <<frontVars, storeVars, sub, mailbox, frames, AnalyticsQueue,
                   taken, phase, abandoned, wk, env>>

\* RemoveClient(shortCode, ch), under mu.Lock
SSEBroker_RemoveClient(ch) ==
    /\ ~ReadLocked
    /\ \E shortCode \in env.codes : clients' = RemoveClient(shortCode, ch)
    /\ UNCHANGED <<frontVars, storeVars, sub, mailbox, frames, AnalyticsQueue,
                   taken, phase, abandoned, wk, env>>

\* Broadcast(shortCode, data) called by goroutine w: mu.RLock and the lookup
\* of the channels; with none the call returns at once.  The sends are the
\* steps Broadcast_Send
SSEBroker_Broadcast(w) ==
    /\ wk[w].pc = "select"
    /\ \E shortCode \in env.codes, total \in 1..MaxBroadcasts :
         LET targets == BroadcastTargets(shortCode)
         IN  wk' = [wk EXCEPT ![w] =
                      IF targets = {} THEN wk[w]
                      ELSE [wk[w] EXCEPT !.pc = "sending", !.cur = shortCode,
                                         !.total = total, !.targets = targets]]
    /\ UNCHANGED <<frontVars, storeVars, brokerVars, AnalyticsQueue, taken,
                   phase, abandoned, env>>

\* msg := <-clientChan
clientChan_Receive(ch) ==
    /\ mailbox[ch] # <<>>
    /\ mailbox' = [mailbox EXCEPT ![ch] = Tail(@)]
    /\ UNCHANGED <<frontVars, storeVars, clients, sub, frames, AnalyticsQueue,
                   taken, phase, abandoned, wk, env>>

(***************************************************************************)
(* StreamAnalytics, GET /api/analytics/<code>/stream.                      *)
(***************************************************************************)
\* initial holds the initial frame once it has been written
IdleSub == [pc |-> "idle", code |-> None, count |-> 0, initial |-> <<>>]

\* a handler that goes on to the snapshot without registering its channel
StreamAnalytics_OpenUnregistered(s) ==
    /\ sub[s].pc = "idle"
    /\ \A t \in Subs : t < s => sub[t].pc # "idle"
    /\ phase # "stopped"
    /\ \E shortCode \in env.codes :
         sub' = [sub EXCEPT ![s] = [IdleSub EXCEPT !.pc = "count", !.code = shortCode]]
    /\ UNCHANGED <<frontVars, storeVars, clients, mailbox, frames, AnalyticsQueue,
                   taken, phase, abandoned, wk, env>>

\* lines 417-469: parse the code, set the headers, make the channel and
\* register it with the broker
StreamAnalytics_Open(s) ==
    /\ sub[s].pc = "idle"
    /\ \A t \in Subs : t < s => sub[t].pc # "idle"
    /\ phase # "stopped"
    /\ ~ReadLocked
    /\ \E shortCode \in env.codes :
         /\ clients' = AddClient(shortCode, s)
         /\ sub' = [sub EXCEPT ![s] = [IdleSub EXCEPT !.pc = "count", !.code = shortCode]]
    /\ UNCHANGED <<frontVars, storeVars, mailbox, frames, AnalyticsQueue, taken,
                   phase, abandoned, wk, env>>

\* lines 479-481: read the realtime counter; an error leaves 0
StreamAnalytics_Count(s) ==
    /\ sub[s].pc = "count"
    /\ \E ok \in KvOutcomes :
         sub' = [sub EXCEPT ![s].pc = "initial",
                            ![s].count = IF ok THEN realtime[sub[s].code] ELSE 0]
    /\ UNCHANGED <<frontVars, storeVars, clients, mailbox, frames, AnalyticsQueue,
                   taken, phase, abandoned, wk, env>>

\* lines 482-497: read link_stats; when the read succeeds its total is the
\* count; write the initial frame
StreamAnalytics_Initial(s) ==
    /\ sub[s].pc = "initial"
    /\ \E ok \in PgOutcomes :
         sub' = [sub EXCEPT ![s].pc = "streaming", ![s].count = 0,
                            ![s].initial = <<IF ok THEN GetLinkStats(sub[s].code).TotalClicks
                                             ELSE sub[s].count>>]
    /\ UNCHANGED <<frontVars, storeVars, clients, mailbox, frames, AnalyticsQueue,
                   taken, phase, abandoned, wk, env>>

\* lines 471-476: the ResponseWriter is no http.Flusher; the handler
\* answers 500 and returns
StreamAnalytics_NoFlusher(s) ==
    /\ sub[s].pc = "count"
    /\ sub' = [sub EXCEPT ![s].pc = "closing"]
    /\ UNCHANGED <<frontVars, storeVars, clients, mailbox, frames, AnalyticsQueue,
                   taken, phase, abandoned, wk, env>>

\* lines 511-517: the heartbeat; on a write error the handler returns
StreamAnalytics_Heartbeat(s) ==
    /\ sub[s].pc = "streaming"
    /\ \E written \in BOOLEAN :
         sub' = IF written THEN sub ELSE [sub EXCEPT ![s].pc = "closing"]
    /\ UNCHANGED <<frontVars, storeVars, clients, mailbox, frames, AnalyticsQueue,
                   taken, phase, abandoned, wk, env>>

\* lines 505-510: take a message from the channel and write it as a data
\* frame; on a write error the handler returns
StreamAnalytics_Deliver(s) ==
    /\ sub[s].pc = "streaming"
    /\ mailbox[s] # <<>>
    /\ mailbox' = [mailbox EXCEPT ![s] = Tail(@)]
    /\ \E written \in BOOLEAN :
         IF written
         THEN /\ frames' = [frames EXCEPT ![s] = Append(@, Head(mailbox[s]))]
              /\ sub' = sub
         ELSE /\ frames' = frames
              /\ sub' = [sub EXCEPT ![s].pc = "closing"]
    /\ UNCHANGED <<frontVars, storeVars, clients, AnalyticsQueue, taken, phase,
                   abandoned, wk, env>>

\* lines 518-519: the client has gone; the handler returns
StreamAnalytics_Disconnect(s) ==
    /\ sub[s].pc = "streaming"
    /\ sub' = [sub EXCEPT ![s].pc = "closing"]
    /\ UNCHANGED <<frontVars, storeVars, clients, mailbox, frames, AnalyticsQueue,
                   taken, phase, abandoned, wk, env>>

\* line 469: the deferred broker.RemoveClient
StreamAnalytics_Close(s) ==
    /\ sub[s].pc = "closing"
    /\ ~ReadLocked
    /\ clients' = RemoveClient(sub[s].code, s)
    /\ sub' = [sub EXCEPT ![s].pc = "closed"]
    /\ UNCHANGED <<frontVars, storeVars, mailbox, frames, AnalyticsQueue, taken,
                   phase, abandoned, wk, env>>

(***************************************************************************)
(* main(): the signal handler.                                             *)
(***************************************************************************)
\* part_008 lines 180-185: the signal arrives and cancel() is called
main_Cancel ==
    /\ phase = "running"
    /\ phase' = "cancelled"
    /\ UNCHANGED <<frontVars, storeVars, brokerVars, AnalyticsQueue, taken,
                   abandoned, wk, env>>

\* part_008 lines 187-196: after the 2 s sleep, server.Shutdown stops the
\* listener
main_Shutdown ==
    /\ phase = "cancelled"
    /\ phase' = "stopped"
    /\ UNCHANGED <<frontVars, storeVars, brokerVars, AnalyticsQueue, taken,
                   abandoned, wk, env>>

\* part_008 lines 191-199: server.Shutdown has returned (every connection
\* idle, or the 10 s deadline passed) and main returns: the process ends
\* and with it every goroutine
main_Exit ==
    /\ phase = "stopped"
    /\ phase' = "exited"
    /\ UNCHANGED <<frontVars, storeVars, brokerVars, AnalyticsQueue, taken,
                   abandoned, wk, env>>

(***************************************************************************)
(* The specification.                                                      *)
(***************************************************************************)
BackInit ==
    /\ abandoned = 0
    /\ phase = "running"
    /\ clicks = [e \in EventDomain |-> 0]
    /\ linkStats = <<>>
    /\ topReferrers = [k \in Codes \X Referers |-> 0]
    /\ wk = [w \in Workers |-> IdleWorker]
    /\ clients = <<>>
    /\ sub = [s \in Subs |-> IdleSub]
    /\ mailbox = [s \in Subs |-> <<>>]
    /\ frames = [s \in Subs |-> <<>>]

\* everything but the environment and the outcome of the pre-population
BaseInit == FrontInit /\ BackInit

(***************************************************************************)
(* The ingest path of the server main() builds: HandleRedirect (L1, then   *)
(* PostgreSQL) and TrackClick produce, the write-through goroutine writes  *)
(* Redis, the workers receive.  Statements may fail and the                *)
(* pre-population may have failed.                                         *)
(***************************************************************************)
IngestInit ==
    /\ BaseInit
    /\ env = [pgFaulty |-> TRUE, kvFaulty |-> TRUE, codes |-> Codes,
              ips |-> {"10.0.0.1"}, refs |-> {""}, budget |-> MaxRequests,
              cap |-> MailboxCap]
    /\ \E ok \in BOOLEAN : L1Cache = PrePopulateL1Cache(ok)

IngestNext ==
    \/ \E r \in Reqs :
        \/ HandleRedirect_Begin(r)
        \/ HandleRedirect_Query(r)
        \/ HandleRedirect_Fill(r)
        \/ HandleRedirect_Offer(r)
        \/ HandleRedirect_Incr(r)
        \/ TrackClick_Begin(r)
        \/ TrackClick_Offer(r)
        \/ TrackClick_Incr(r)
    \/ RedisWriteThrough
    \/ \E w \in Workers : worker_Receive(w)

SpecIngest == IngestInit /\ [][IngestNext]_vars

(***************************************************************************)
(* The same path with the HandleRedirect of backend/handlers/redirect.go   *)
(* mounted instead (both declare handlers.HandleRedirect, so a build has   *)
(* one of them).                                                           *)
(***************************************************************************)
LegacyInit ==
    /\ BaseInit
    /\ env = [pgFaulty |-> TRUE, kvFaulty |-> TRUE, codes |-> Codes,
              ips |-> {"10.0.0.1"}, refs |-> {""}, budget |-> MaxRequests,
              cap |-> MailboxCap]
    /\ L1Cache = PrePopulateL1Cache(FALSE)

LegacyNext ==
    \/ \E r \in Reqs :
        \/ LegacyRedirect_Begin(r)
        \/ LegacyRedirect_Query(r)
        \/ LegacyRedirect_Set(r)
        \/ LegacyRedirect_Offer(r)
        \/ LegacyRedirect_Incr(r)
    \/ \E w \in Workers : worker_Receive(w)

SpecLegacy == LegacyInit /\ [][LegacyNext]_vars

(***************************************************************************)
(* The worker pool: redirects served from a pre-populated L1 produce the   *)
(* events and the workers batch and flush them.  PostgreSQL statements may *)
(* fail.  No stream is open and no signal arrives.                         *)
(***************************************************************************)
FlushInit ==
    /\ BaseInit
    /\ env \in [pgFaulty : BOOLEAN, kvFaulty : {FALSE}, codes : {KnownCodes},
                ips : {IPs}, refs : {{""}}, budget : {MaxClicks},
                cap : {MailboxCap}]
    /\ L1Cache = PrePopulateL1Cache(TRUE)

FlushNext ==
    \/ \E r \in {1} :
        \/ HandleRedirect_Begin(r)
        \/ HandleRedirect_Offer(r)
        \/ HandleRedirect_Incr(r)
    \/ \E w \in Workers :
        \/ worker_Receive(w)
        \/ worker_Tick(w)
        \/ flushBatch_Insert(w)
        \/ flushBatch_GetStats(w)
        \/ flushBatch_Recount(w)
        \/ flushBatch_UpdateStats(w)
        \/ flushBatch_ReadBack(w)
        \/ flushBatch_Broadcast(w)

SpecFlush == FlushInit /\ [][FlushNext]_vars


(***************************************************************************)
(* The live streams: the worker pool as above, with no failing statement,  *)
(* flushing while StreamAnalytics handlers register, read and leave.       *)
(***************************************************************************)
StreamInit ==
    /\ BaseInit
    /\ env = [pgFaulty |-> FALSE, kvFaulty |-> FALSE, codes |-> KnownCodes,
              ips |-> {"10.0.0.1"}, refs |-> {""}, budget |-> MaxBroadcasts,
              cap |-> MailboxCap]
    /\ L1Cache = PrePopulateL1Cache(TRUE)

StreamNext ==
    \/ \E r \in {1} :
        \/ HandleRedirect_Begin(r)
        \/ HandleRedirect_Offer(r)
        \/ HandleRedirect_Incr(r)
    \/ \E w \in Workers :
        \/ worker_Receive(w)
        \/ worker_Tick(w)
        \/ flushBatch_Insert(w)
        \/ flushBatch_GetStats(w)
        \/ flushBatch_Recount(w)
        \/ flushBatch_UpdateStats(w)
        \/ flushBatch_ReadBack(w)
        \/ flushBatch_Broadcast(w)
        \/ Broadcast_Send(w)
    \/ \E s \in Subs :
        \/ StreamAnalytics_Open(s)
        \/ StreamAnalytics_Count(s)
        \/ StreamAnalytics_Initial(s)
        \/ StreamAnalytics_Deliver(s)
        \/ StreamAnalytics_Disconnect(s)
        \/ StreamAnalytics_Close(s)

SpecStream == StreamInit /\ [][StreamNext]_vars


(***************************************************************************)
(* Shutdown: the worker pool as above, with no failing statement other     *)
(* than those run after cancel(); the signal arrives at any moment.        *)
(***************************************************************************)
ShutdownInit ==
    /\ BaseInit
    /\ env = [pgFaulty |-> FALSE, kvFaulty |-> FALSE, codes |-> KnownCodes,
              ips |-> {"10.0.0.1"}, refs |-> {""}, budget |-> MaxClicks,
              cap |-> MailboxCap]
    /\ L1Cache = PrePopulateL1Cache(TRUE)

ShutdownNext ==
    \/ \E r \in {1} :
        \/ HandleRedirect_Begin(r)
        \/ HandleRedirect_Offer(r)
        \/ HandleRedirect_Incr(r)
    \/ \E w \in Workers :
        \/ worker_Receive(w)
        \/ worker_Tick(w)
        \/ worker_Done(w)
        \/ flushBatch_Insert(w)
        \/ flushBatch_GetStats(w)
        \/ flushBatch_Recount(w)
        \/ flushBatch_UpdateStats(w)
        \/ flushBatch_ReadBack(w)
        \/ flushBatch_Broadcast(w)
    \/ main_Cancel
    \/ main_Shutdown

SpecShutdown == ShutdownInit /\ [][ShutdownNext]_vars

(***************************************************************************)
(* The worker pool with no failing statement and no signal, every worker   *)
(* goroutine being scheduled: a worker that can take a step (receive, the  *)
(* ticker firing, the next statement of its flush) eventually takes one.   *)
(***************************************************************************)
LiveInit ==
    /\ BaseInit
    /\ env = [pgFaulty |-> FALSE, kvFaulty |-> FALSE, codes |-> KnownCodes,
              ips |-> {"10.0.0.1"}, refs |-> {""}, budget |-> MaxClicks,
              cap |-> MailboxCap]
    /\ L1Cache = PrePopulateL1Cache(TRUE)

\* the steps of worker w in a running pool
WorkerStep(w) ==
    \/ worker_Receive(w)
    \/ worker_Tick(w)
    \/ flushBatch_Insert(w)
    \/ flushBatch_GetStats(w)
    \/ flushBatch_Recount(w)
    \/ flushBatch_UpdateStats(w)
    \/ flushBatch_ReadBack(w)
    \/ flushBatch_Broadcast(w)

LiveNext ==
    \/ \E r \in {1} :
        \/ HandleRedirect_Begin(r)
        \/ HandleRedirect_Offer(r)
        \/ HandleRedirect_Incr(r)
    \/ \E w \in Workers : WorkerStep(w)

SpecLive ==
    LiveInit /\ [][LiveNext]_vars /\ \A w \in Workers : WF_vars(WorkerStep(w))


(***************************************************************************)
(* Link creation next to the redirect path: CreateLink inserts links       *)
(* while HandleRedirect resolves codes through L1 and PostgreSQL.          *)
(* Statements may fail and the pre-population may have failed.             *)
(***************************************************************************)
CreateInit ==
    /\ BaseInit
    /\ env = [pgFaulty |-> TRUE, kvFaulty |-> FALSE, codes |-> Codes,
              ips |-> {"10.0.0.1"}, refs |-> {""}, budget |-> MaxRequests,
              cap |-> MailboxCap]
    /\ \E ok \in BOOLEAN : L1Cache = PrePopulateL1Cache(ok)

CreateNext ==
    \/ \E r \in Reqs :
        \/ CreateLink_Begin(r)
        \/ CreateLink_Attempt(r)
        \/ CreateLink_Respond(r)
        \/ HandleRedirect_Begin(r)
        \/ HandleRedirect_Query(r)
        \/ HandleRedirect_Fill(r)
        \/ HandleRedirect_Offer(r)
        \/ HandleRedirect_Incr(r)
    \/ RedisWriteThrough

SpecCreate == CreateInit /\ [][CreateNext]_vars


(***************************************************************************)
(* The streams over the whole life of the server: StreamAnalytics handlers *)
(* for codes with and without a link, redirects and the worker pool        *)
(* feeding them, and main() from the signal to the end of the process.     *)
(* No statement fails other than those run after cancel().                 *)
(***************************************************************************)
SubscribeInit ==
    /\ BaseInit
    /\ env = [pgFaulty |-> FALSE, kvFaulty |-> FALSE, codes |-> {"a", UnknownCode},
              ips |-> {"10.0.0.1"}, refs |-> {""}, budget |-> MaxStreamClicks,
              cap |-> MailboxCap]
    /\ L1Cache = PrePopulateL1Cache(TRUE)

\* the process has not ended: its goroutines take steps
Alive == phase # "exited"

\* the goroutines of the process until main returns, and main from the
\* signal on
SubscribeNext ==
    \/ \E r \in {1} :
        \/ Alive /\ HandleRedirect_Begin(r)
        \/ Alive /\ HandleRedirect_Query(r)
        \/ Alive /\ HandleRedirect_Offer(r)
        \/ Alive /\ HandleRedirect_Incr(r)
    \/ \E w \in Workers :
        \/ Alive /\ worker_Receive(w)
        \/ Alive /\ worker_Tick(w)
        \/ Alive /\ worker_Done(w)
        \/ Alive /\ flushBatch_Insert(w)
        \/ Alive /\ flushBatch_GetStats(w)
        \/ Alive /\ flushBatch_Recount(w)
        \/ Alive /\ flushBatch_UpdateStats(w)
        \/ Alive /\ flushBatch_ReadBack(w)
        \/ Alive /\ flushBatch_Broadcast(w)
        \/ Alive /\ Broadcast_Send(w)
    \/ \E s \in Subs :
        \/ Alive /\ StreamAnalytics_Open(s)
        \/ Alive /\ StreamAnalytics_NoFlusher(s)
        \/ Alive /\ StreamAnalytics_Count(s)
        \/ Alive /\ StreamAnalytics_Initial(s)
        \/ Alive /\ StreamAnalytics_Deliver(s)
        \/ Alive /\ StreamAnalytics_Heartbeat(s)
        \/ Alive /\ StreamAnalytics_Disconnect(s)
        \/ Alive /\ StreamAnalytics_Close(s)
    \/ main_Cancel
    \/ main_Shutdown
    \/ main_Exit

SpecSubscribe == SubscribeInit /\ [][SubscribeNext]_vars


(***************************************************************************)
(* The worker pool with its tickers and a clock: time passes in units,     *)
(* each worker's ticker fires every BatchTimeout units from the moment the *)
(* worker made it, events arrive at any moment.  No statement fails.       *)
(***************************************************************************)
TimerInit ==
    /\ FrontInit
    /\ abandoned = 0
    /\ phase = "running"
    /\ clicks = [e \in EventDomain |-> 0]
    /\ linkStats = <<>>
    /\ topReferrers = [k \in Codes \X Referers |-> 0]
    /\ wk = [w \in Workers |-> [IdleWorker EXCEPT !.timer = "armed"]]
    /\ clients = <<>>
    /\ sub = [s \in Subs |-> IdleSub]
    /\ mailbox = [s \in Subs |-> <<>>]
    /\ frames = [s \in Subs |-> <<>>]
    /\ env = [pgFaulty |-> FALSE, kvFaulty |-> FALSE, codes |-> {"a"},
              ips |-> {"10.0.0.1"}, refs |-> {""}, budget |-> MaxTimedClicks,
              cap |-> MailboxCap]
    /\ L1Cache = PrePopulateL1Cache(TRUE)

TimerNext ==
    \/ \E r \in {1} :
        \/ HandleRedirect_Begin(r)
        \/ HandleRedirect_Offer(r)
        \/ HandleRedirect_Incr(r)
    \/ \E w \in Workers :
        \/ worker_Receive(w)
        \/ worker_Tick(w)
        \/ worker_TickEmpty(w)
        \/ ticker_Fire(w)
        \/ flushBatch_Insert(w)
        \/ flushBatch_GetStats(w)
        \/ flushBatch_Recount(w)
        \/ flushBatch_UpdateStats(w)
        \/ flushBatch_ReadBack(w)
        \/ flushBatch_Broadcast(w)
    \/ ticker_Elapse

SpecTimer == TimerInit /\ [][TimerNext]_vars


(***************************************************************************)
(* The parsers: the same path arrives at the HandleRedirect of part_002    *)
(* (request 1) and at the one of redirect.go (the other requests).         *)
(***************************************************************************)
PathInit ==
    /\ BackInit
    /\ links = LinkRows
    /\ kvLink = [c \in Codes |-> None]
    /\ kvPending = {}
    /\ realtime = [c \in Codes |-> 0]
    /\ kvExpire = NoExpire
    /\ AnalyticsQueue = <<>>
    /\ issued = 0
    /\ offers = 0
    /\ dropped = 0
    /\ taken = 0
    /\ env = [pgFaulty |-> FALSE, kvFaulty |-> FALSE, codes |-> Codes,
              ips |-> {"10.0.0.1"}, refs |-> {""}, budget |-> 0,
              cap |-> MailboxCap]
    /\ L1Cache = PrePopulateL1Cache(TRUE)
    /\ \E path \in Paths :
         req = [r \in Reqs |->
                  [IdleReq EXCEPT !.pc = "parse", !.path = path,
                                  !.handler = IF r = 1 THEN "redirect" ELSE "legacy"]]

PathNext ==
    \E r \in Reqs :
        \/ HandleRedirect_Parse(r)
        \/ LegacyRedirect_Parse(r)

SpecPath == PathInit /\ [][PathNext]_vars


(***************************************************************************)
(* One stream whose channel holds several messages: clicks on one short    *)
(* code are flushed by the workers and broadcast while the handler of the  *)
(* stream registers, writes frames and returns.  No statement fails.       *)
(***************************************************************************)
FifoInit ==
    /\ BaseInit
    /\ env = [pgFaulty |-> FALSE, kvFaulty |-> FALSE, codes |-> {"a"},
              ips |-> {"10.0.0.1"}, refs |-> {""}, budget |-> MaxClicks,
              cap |-> FifoMailboxCap]
    /\ L1Cache = PrePopulateL1Cache(TRUE)

FifoNext ==
    \/ \E r \in {1} :
        \/ HandleRedirect_Begin(r)
        \/ HandleRedirect_Offer(r)
        \/ HandleRedirect_Incr(r)
    \/ \E w \in Workers :
        \/ worker_Receive(w)
        \/ worker_Tick(w)
        \/ flushBatch_Insert(w)
        \/ flushBatch_GetStats(w)
        \/ flushBatch_Recount(w)
        \/ flushBatch_UpdateStats(w)
        \/ flushBatch_ReadBack(w)
        \/ flushBatch_Broadcast(w)
        \/ Broadcast_Send(w)
    \/ \E s \in {1} :
        \/ StreamAnalytics_Open(s)
        \/ StreamAnalytics_Count(s)
        \/ StreamAnalytics_Initial(s)
        \/ StreamAnalytics_Deliver(s)
        \/ StreamAnalytics_Disconnect(s)
        \/ StreamAnalytics_Close(s)

SpecFifo == FifoInit /\ [][FifoNext]_vars

(***************************************************************************)
(* The broker by itself: AddClient, RemoveClient and Broadcast called in   *)
(* any order with any short code and channel, registered or not, while     *)
(* the channels are read or left full.                                     *)
(***************************************************************************)
BrokerInit ==
    /\ BaseInit
    /\ env = [pgFaulty |-> FALSE, kvFaulty |-> FALSE, codes |-> KnownCodes,
              ips |-> {"10.0.0.1"}, refs |-> {""}, budget |-> 0,
              cap |-> MailboxCap]
    /\ L1Cache = PrePopulateL1Cache(TRUE)

BrokerNext ==
    \/ \E ch \in Subs :
        \/ SSEBroker_AddClient(ch)
        \/ SSEBroker_RemoveClient(ch)
        \/ clientChan_Receive(ch)
    \/ \E w \in Workers :
        \/ SSEBroker_Broadcast(w)
        \/ Broadcast_Send(w)

SpecBroker == BrokerInit /\ [][BrokerNext]_vars

\* a goroutine inside Broadcast keeps running: the scheduler does not leave
\* it aside forever.  Nothing is assumed about the readers of the channels
SpecBrokerFair ==
    SpecBroker /\ \A w \in Workers : WF_vars(Broadcast_Send(w))

(***************************************************************************)
(* The aggregation with failing statements: batches that mix short codes   *)
(* and referers, any PostgreSQL statement may fail.                        *)
(***************************************************************************)
AggregateInit ==
    /\ BaseInit
    /\ env = [pgFaulty |-> TRUE, kvFaulty |-> FALSE, codes |-> KnownCodes,
              ips |-> {"10.0.0.1"}, refs |-> {"", "https://t.co"},
              budget |-> MaxClicks,
              cap |-> MailboxCap]
    /\ L1Cache = PrePopulateL1Cache(TRUE)

AggregateNext ==
    \/ \E r \in {1} :
        \/ HandleRedirect_Begin(r)
        \/ HandleRedirect_Offer(r)
        \/ HandleRedirect_Incr(r)
    \/ \E w \in Workers :
        \/ worker_Receive(w)
        \/ worker_Tick(w)
        \/ flushBatch_Insert(w)
        \/ flushBatch_GetStats(w)
        \/ flushBatch_Recount(w)
        \/ flushBatch_UpdateStats(w)
        \/ flushBatch_UpdateReferrer(w)
        \/ flushBatch_ReadBack(w)
        \/ flushBatch_Broadcast(w)

SpecAggregate == AggregateInit /\ [][AggregateNext]_vars

(***************************************************************************)
(* The analytics reads: redirects that carry referers produce the events,  *)
(* the workers flush them into clicks, link_stats and top_referrers, and   *)
(* GetAnalytics reads the tables, for codes with and without a link.  No   *)
(* statement fails.                                                        *)
(***************************************************************************)
AnalyticsInit ==
    /\ BaseInit
    /\ env = [pgFaulty |-> FALSE, kvFaulty |-> FALSE, codes |-> {"a", UnknownCode},
              ips |-> {"10.0.0.1"}, refs |-> Referers, budget |-> MaxRequests,
              cap |-> MailboxCap]
    /\ L1Cache = PrePopulateL1Cache(TRUE)

AnalyticsNext ==
    \/ \E r \in {1} :
        \/ HandleRedirect_Begin(r)
        \/ HandleRedirect_Query(r)
        \/ HandleRedirect_Offer(r)
        \/ HandleRedirect_Incr(r)
    \/ \E r \in Reqs \ {1} :
        \/ GetAnalytics_Begin(r)
        \/ GetAnalytics_Stats(r)
        \/ GetAnalytics_Recount(r)
        \/ GetAnalytics_Referrers(r)
    \/ \E w \in Workers :
        \/ worker_Receive(w)
        \/ worker_Tick(w)
        \/ flushBatch_Insert(w)
        \/ flushBatch_GetStats(w)
        \/ flushBatch_Recount(w)
        \/ flushBatch_UpdateStats(w)
        \/ flushBatch_UpdateReferrer(w)
        \/ flushBatch_ReadBack(w)
        \/ flushBatch_Broadcast(w)

SpecAnalytics == AnalyticsInit /\ [][AnalyticsNext]_vars


(***************************************************************************)
(* Properties.                                                             *)
(***************************************************************************)
Min(a, b) == IF a < b THEN a ELSE b

\* the requests that are at their offer
Offering == {r \in Reqs : req[r].pc = "offer"}

\* the request r performs its offer in this step
OfferBy(r) == req[r].pc = "offer" /\ req'[r].pc = "incr"

\* C1: an offer never blocks; it appends the event when the queue holds
\* fewer than QueueCap events and otherwise discards it and leaves the queue
\* as it is.  So the queue never holds more than QueueCap events, and while
\* no worker has received anything the queue holds min(offers, QueueCap)
\* events: QueueCap + 1 offers leave exactly QueueCap queued.
C1_OfferOrDrop ==
    /\ [](/\ Len(AnalyticsQueue) <= QueueCap
          /\ taken = 0 => Len(AnalyticsQueue) = Min(offers, QueueCap)
          /\ \A r \in Offering :
                ENABLED (HandleRedirect_Offer(r) \/ TrackClick_Offer(r)))
    /\ [][\A r \in Reqs : OfferBy(r) =>
            /\ offers' = offers + 1
            /\ IF Len(AnalyticsQueue) < QueueCap
               THEN /\ AnalyticsQueue' = Append(AnalyticsQueue, EventOf(req[r]))
                    /\ dropped' = dropped
               ELSE /\ AnalyticsQueue' = AnalyticsQueue
                    /\ dropped' = dropped + 1]_vars

\* C1's case: with the workers halted, QueueCap + 1 offers have been made,
\* the last one was dropped and QueueCap events are queued
C1_Witness ==
    /\ taken = 0
    /\ offers = QueueCap + 1
    /\ dropped = 1
    /\ Len(AnalyticsQueue) = QueueCap

\* the redirect requests whose short code resolved to a URL and that have
\* been answered
Resolved == {r \in Reqs : /\ req[r].handler \in {"redirect", "legacy"}
                          /\ req[r].url # None
                          /\ req[r].status # 0}

\* C2: a redirect request whose short code resolves to the URL u is
\* answered 302 with Location u.
C2_Redirect302 ==
    \A r \in Resolved :
        /\ req[r].status = 302
        /\ req[r].loc = req[r].url
        /\ req[r].url = links[req[r].code]

\* the redirect requests HandleRedirect (L1 first) serves
Redirects == {r \in Reqs : req[r].handler = "redirect"}

\* the request r enters HandleRedirect in this step
BeginBy(r) == req[r].pc = "idle" /\ req'[r].pc # "idle" /\ req'[r].handler = "redirect"

Failed == {r \in Reqs : req[r].status \in {404, 500}}

\* the request r is answered 404 or 500 in this step
FailBy(r) == req[r].status = 0 /\ req'[r].status \in {404, 500}

\* C4: a redirect (or track) request for a short code without a link is
\* answered 404, one whose lookup fails is answered 500; such a request
\* offers no event, bumps no counter and leaves L1 as it is, and the queue
\* never holds an event for a short code without a link.
C4_NoEventOnError ==
    /\ [](/\ \A r \in Failed :
                /\ req[r].pc = "idle"
                /\ req[r].queried
                /\ ~req[r].offered
                /\ ~req[r].bumped
                /\ req[r].status = 404 => links[req[r].code] = None
          /\ \A r \in Reqs :
                (req[r].status # 0 /\ links[req[r].code] = None) => r \in Failed
          /\ \A i \in 1..Len(AnalyticsQueue) :
                links[AnalyticsQueue[i].ShortCode] # None)
    /\ [][\A r \in Reqs : FailBy(r) =>
            /\ AnalyticsQueue' = AnalyticsQueue
            /\ offers' = offers
            /\ realtime' = realtime
            /\ L1Cache' = L1Cache]_vars

\* C4's case: one request has been answered 404 and another 500
C4_Witness ==
    \E r1, r2 \in Reqs :
        /\ req[r1].status = 404 /\ req[r1].handler = "redirect"
        /\ req[r2].status = 500 /\ req[r2].handler = "redirect"

RECURSIVE SumOver(_, _)
\* the sum of f over the finite set S
SumOver(f, S) ==
    IF S = {} THEN 0
    ELSE LET x == CHOOSE y \in S : TRUE IN f[x] + SumOver(f, S \ {x})

\* the click rows persisted for the short code
RowsFor(shortCode) ==
    SumOver(clicks, {e \in EventDomain : e.ShortCode = shortCode})

\* the events of worker w's batch that carry the short code
BatchCount(w, shortCode) == Cardinality(Indices(wk[w].batch, shortCode))

\* worker w has inserted its batch and has yet to run the stats upsert for
\* the short code
UpsertPending(w, shortCode) ==
    \/ shortCode \in wk[w].todo
    \/ wk[w].cur = shortCode /\ wk[w].pc \in {"recount", "upsert"}

PendingCount(shortCode) ==
    SumOver([w \in Workers |->
                IF UpsertPending(w, shortCode) THEN BatchCount(w, shortCode) ELSE 0],
            Workers)

\* worker w runs its stats upsert in this step
UpsertBy(w) == wk[w].pc = "upsert" /\ wk'[w].pc = "refs"

\* C6: a stats upsert that succeeds raises total_clicks of its short code by
\* exactly the number of events of the batch that carry the code and changes
\* no other code's total, and nothing else changes link_stats.  With several
\* workers flushing the same code no increment is lost or applied twice:
\* when no statement fails, the click rows of a code are its total_clicks
\* plus the events of the inserted batches whose upsert is still to come.
C6_TotalClicksAdditive ==
    /\ [](~env.pgFaulty =>
            \A c \in Codes :
                RowsFor(c) = GetLinkStats(c).TotalClicks + PendingCount(c))
    /\ [][/\ \A w \in Workers : UpsertBy(w) =>
                \/ env.pgFaulty /\ linkStats' = linkStats
                \/ /\ GetLinkStats(wk[w].cur)'.TotalClicks =
                        GetLinkStats(wk[w].cur).TotalClicks + BatchCount(w, wk[w].cur)
                   /\ BatchCount(w, wk[w].cur) > 0
                   /\ \A c \in Codes \ {wk[w].cur} :
                        GetLinkStats(c)' = GetLinkStats(c)
          /\ linkStats' # linkStats => \E w \in Workers : UpsertBy(w)]_vars

\* C6's case: both workers have inserted a batch with events of the same
\* short code, one has applied its increment and the other is about to
C6_Witness ==
    \E w1, w2 \in Workers :
        /\ w1 # w2
        /\ wk[w1].pc = "upsert"
        /\ wk[w2].pc = "refs"
        /\ wk[w1].cur = wk[w2].cur
        /\ GetLinkStats(wk[w1].cur).TotalClicks = BatchCount(w2, wk[w2].cur)

\* C7: when no statement fails, a worker's stats upsert for a short code
\* leaves unique_visitors equal to the number of distinct visitor hashes
\* among the click rows persisted for the code, whatever the other workers
\* do in between.
C7_UniqueVisitorsExact ==
    [][~env.pgFaulty =>
        \A w \in Workers : UpsertBy(w) =>
            GetLinkStats(wk[w].cur)'.UniqueVisitors =
                RecalculateUniqueVisitors(wk[w].cur)']_vars

\* the handlers registered with the broker for the short code: AddClient
\* has run and the deferred RemoveClient has not
Registered(shortCode) ==
    {s \in Subs : /\ sub[s].code = shortCode
                  /\ sub[s].pc \in {"count", "initial", "streaming", "closing"}}

\* worker w enters Broadcast in this step
BroadcastBy(w) == wk[w].pc = "broadcast" /\ wk'[w].pc # "broadcast"

\* worker w performs one send of its Broadcast in this step
SendBy(w) == wk[w].pc = "sending" /\ wk'[w] # wk[w]

\* C8: a Broadcast for a short code reaches exactly the handlers registered
\* for it at that moment.  Each of them gets the message appended to its
\* mailbox unless the mailbox holds MailboxCap messages already; then the
\* message is skipped for that handler alone and its mailbox stays as it
\* is.  No other mailbox changes, so a mailbox only holds messages of its
\* own short code.
C8_BroadcastDelivery ==
    /\ [](/\ \A s \in Subs :
                /\ Len(mailbox[s]) <= MailboxCap
                /\ \A i \in 1..Len(mailbox[s]) :
                      mailbox[s][i].short_code = sub[s].code
          /\ \A c \in Codes : BroadcastTargets(c) = Registered(c)
          /\ \A w \in Workers : wk[w].pc = "sending" =>
                /\ wk[w].targets # {}
                /\ wk[w].targets \subseteq Registered(wk[w].cur))
    /\ [][\A w \in Workers :
            /\ BroadcastBy(w) =>
                 IF Registered(wk[w].cur) = {}
                 THEN wk'[w].pc # "sending" /\ mailbox' = mailbox
                 ELSE /\ wk'[w].pc = "sending"
                      /\ wk'[w].targets = Registered(wk[w].cur)
                      /\ mailbox' = mailbox
            /\ SendBy(w) =>
                 \E ch \in wk[w].targets :
                    /\ mailbox' = [mailbox EXCEPT ![ch] =
                          IF Len(mailbox[ch]) < MailboxCap
                          THEN Append(mailbox[ch], Payload(wk[w].cur, wk[w].total))
                          ELSE mailbox[ch]]
                    /\ IF wk[w].targets = {ch}
                       THEN wk'[w].pc # "sending"
                       ELSE /\ wk'[w].pc = "sending"
                            /\ wk'[w].targets = wk[w].targets \ {ch}]_vars

\* C8's case: in one Broadcast to two handlers of a short code, one has
\* received the message and the other, whose mailbox is full, is next
C8_Witness ==
    \E w \in Workers, s1, s2 \in Subs :
        /\ s1 # s2
        /\ wk[w].pc = "sending"
        /\ wk[w].targets = {s2}
        /\ s1 \in Registered(wk[w].cur)
        /\ frames[s1] # <<>>
        /\ mailbox[s1] = <<Payload(wk[w].cur, wk[w].total)>>
        /\ Len(mailbox[s2]) = MailboxCap
        /\ mailbox[s2][1] # Payload(wk[w].cur, wk[w].total)

\* C9: when no statement fails, the total_clicks values of the broadcast
\* frames one handler writes never decrease, whatever the number of workers.
C9_FramesNonDecreasing ==
    \A s \in Subs :
        \A i, j \in 1..Len(frames[s]) :
            i < j => frames[s][i].total_clicks <= frames[s][j].total_clicks

\* the sum of total_clicks over link_stats
TotalClicksSum ==
    SumOver([c \in Codes |-> GetLinkStats(c).TotalClicks], Codes)

\* C5: with no failing statement and no shutdown, every event the queue
\* accepted is eventually flushed: from some point on the increments applied
\* to total_clicks add up to the number of accepted events, also when the
\* last events fill no batch (the ticker flushes them).
C5_EventuallyFlushed ==
    /\ [](TotalClicksSum <= offers - dropped)
    /\ <>[](TotalClicksSum = offers - dropped)

\* C5's case: MaxClicks events were accepted and all are counted; the last
\* batch was a partial one, flushed by the ticker
C5_Witness ==
    /\ offers - dropped = MaxClicks
    /\ TotalClicksSum = MaxClicks
    /\ MaxClicks % BatchSize # 0
    /\ \A w \in Workers : wk[w].pc = "select" /\ wk[w].batch = <<>>

\* C10: on shutdown a worker that holds a non-empty partial batch flushes it
\* (the events are persisted) before it exits.
C10_ShutdownFlush ==
    \A w \in Workers : wk[w].pc = "exit" => wk[w].tail \in {"none", "flushed"}

\* the click rows persisted
TotalRows == SumOver(clicks, EventDomain)

\* the shutdown is over: the server has stopped, every worker has returned
\* and no handler is running
ShutdownComplete ==
    /\ phase = "stopped"
    /\ \A w \in Workers : wk[w].pc = "exit"
    /\ \A r \in Reqs : req[r].pc = "idle"

\* C11: when the shutdown is over, every event the queue accepted has been
\* persisted by a flush or logged as lost with its batch; none is left in
\* the queue or in a worker's batch.
C11_ShutdownAccounting ==
    ShutdownComplete =>
        /\ AnalyticsQueue = <<>>
        /\ \A w \in Workers : wk[w].batch = <<>>
        /\ offers - dropped = TotalRows + abandoned

\* C12: the shutdown stops the HTTP server before it cancels the workers:
\* once the workers are cancelled no request is taken, so no redirect is
\* served and no event is offered.
C12_ShutdownOrder ==
    [][phase # "running" => (issued' = issued /\ offers' = offers)]_vars

\* C13: every short code present in L1 has a row in links with the same
\* original_url, whatever the interleaving of the pre-population, of link
\* creations and of L1-miss fills.
C13_L1MatchesStore ==
    \A c \in Codes : L1Cache[c] # None => links[c] = L1Cache[c]

\* C13's case: a link created while the server runs has been put into L1 by
\* a redirect that missed
C13_Witness ==
    /\ LinkRows[UnknownCode] = None
    /\ L1Cache[UnknownCode] # None
    /\ \E r \in Reqs : req[r].handler = "create" /\ req[r].status = 201

\* the CreateLink requests answered 201
Created == {r \in Reqs : req[r].handler = "create" /\ req[r].status = 201}

\* C14: once CreateLink has answered 201, L1 maps the new short code to the
\* submitted URL.
C14_CreatedInL1 ==
    \A r \in Created : L1Cache[req[r].code] = req[r].url

\* C15: a redirect to the short code CreateLink returned for the URL u is
\* answered with Location u, unchanged, on an L1 hit and on an L1 miss; the
\* row in links holds u.
C15_CreateThenResolve ==
    \A r \in Created :
        /\ links[req[r].code] = req[r].url
        /\ \A q \in Redirects :
              (req[q].code = req[r].code /\ req[q].status = 302) =>
                  req[q].loc = req[r].url

\* C15's case: the created code has been resolved by a redirect that hit L1
\* (after one that missed and filled it)
C15_Witness ==
    \E r \in Created, q \in Redirects :
        /\ req[q].code = req[r].code
        /\ req[q].status = 302
        /\ req[q].hitL1
        /\ req[r].url = "http://ex.com/NEW"

\* the CreateLink requests
Creates == {r \in Reqs : req[r].handler = "create"}

\* the CreateLink request r makes one insert attempt in this step
AttemptBy(r) ==
    req[r].pc = "insert" /\ req[r].handler = "create" /\ req'[r] # req[r]

\* C16: CreateLink makes at most maxRetries (5) insert attempts, each with a
\* newly generated code; the first insert that succeeds ends the loop and
\* its code is answered with 201; the fifth failure is answered 500, and no
\* failed attempt stores a link.
C16_BoundedRetries ==
    /\ [](\A r \in Creates :
            /\ req[r].tries <= maxRetries
            /\ req[r].pc = "insert" => req[r].tries < maxRetries
            /\ req[r].status = 201 =>
                 /\ req[r].tries >= 1
                 /\ links[req[r].code] = req[r].url
            /\ req[r].status = 500 =>
                 /\ req[r].tries = maxRetries
                 /\ req[r].code = None)
    /\ [][\A r \in Reqs :
            /\ AttemptBy(r) =>
                 /\ req'[r].tries = req[r].tries + 1
                 /\ IF links' # links
                    THEN /\ req'[r].pc = "created"
                         /\ links[req'[r].code] = None
                         /\ links' = [links EXCEPT ![req'[r].code] = req[r].url]
                    ELSE IF req[r].tries = maxRetries - 1
                    THEN req'[r].pc = "idle" /\ req'[r].status = 500
                    ELSE req'[r].pc = "insert" /\ req'[r].status = 0
            /\ (req[r].pc = "created" /\ req'[r].pc # "created") =>
                 /\ req'[r].status = 201
                 /\ req'[r].code = req[r].code
                 /\ links' = links]_vars

\* C16's case: one CreateLink has given up after maxRetries failed attempts
\* and another has succeeded on a retry
C16_Witness ==
    \E r1, r2 \in Creates :
        /\ req[r1].status = 500 /\ req[r1].tries = maxRetries
        /\ req[r2].status = 201 /\ req[r2].tries > 1

\* the channels the broker holds, of every short code
AllClients == UNION {clients[c] : c \in DOMAIN clients}

\* the stream requests made for a short code without a link
Unresolved == {s \in Subs : sub[s].pc # "idle" /\ links[sub[s].code] = None}

\* C17: a stream request for a short code without a link is refused: no
\* channel is registered with the broker for it and no frame is written.
C17_StreamUnknownRefused ==
    \A s \in Unresolved :
        /\ s \notin AllClients
        /\ sub[s].pc = "closed"
        /\ sub[s].initial = <<>>

\* the handler s writes its initial frame in this step
InitialBy(s) == sub[s].pc = "initial" /\ sub'[s].pc = "streaming"

\* C18: the initial frame carries total_clicks of the link_stats row when
\* the short code has one, and the realtime counter the handler read when
\* it has none.
C18_InitialFrame ==
    [][\A s \in Subs : InitialBy(s) =>
        sub'[s].initial =
            <<IF sub[s].code \in DOMAIN linkStats
              THEN linkStats[sub[s].code].TotalClicks
              ELSE sub[s].count>>]_vars

\* the handler s returns in this step
ReturnBy(s) == sub[s].pc # "closed" /\ sub'[s].pc = "closed"

\* C19: however a stream ends (the client gone, a failed write of a data
\* frame or of a heartbeat, no flush support), its channel is removed from
\* the broker before the handler returns: the broker holds no channel of a
\* returned handler, and exactly the channels of the handlers between
\* AddClient and their return.
C19_DeregisteredOnReturn ==
    /\ [](/\ \A s \in Subs : sub[s].pc = "closed" => s \notin AllClients
          /\ \A s \in Subs :
                sub[s].pc \in {"count", "initial", "streaming", "closing"} =>
                    s \in BroadcastTargets(sub[s].code))
    /\ [][\A s \in Subs :
            /\ ReturnBy(s) =>
                 /\ sub[s].pc = "closing"
                 /\ s \in AllClients
                 /\ s \notin AllClients'
            /\ (sub[s].pc \in {"count", "streaming"}
                  /\ sub'[s].pc \notin {"count", "initial", "streaming"}) =>
                 sub'[s].pc = "closing"]_vars

\* C19's case: a handler that streamed a frame has returned while another
\* handler of the same short code is still registered
C19_Witness ==
    \E s, t \in Subs :
        /\ s # t
        /\ sub[s].pc = "closed"
        /\ frames[s] # <<>>
        /\ sub[t].pc = "streaming"
        /\ sub[t].code = sub[s].code
        /\ BroadcastTargets(sub[t].code) = {t}

\* C20: the shutdown is a trigger of Streaming -> Closed: when main returns,
\* no stream is still in its select loop with its channel registered (every
\* stream that reached Streaming has returned and is deregistered).
C20_ShutdownClosesStreams ==
    phase = "exited" =>
        \A s \in Subs :
            sub[s].pc = "streaming" => s \notin BroadcastTargets(sub[s].code)

\* worker w runs the batch insert of its flush in this step
InsertBy(w) == wk[w].pc = "insert" /\ wk'[w].pc # "insert"

\* the batch insert worker w runs in this step fails
InsertFailedBy(w) == InsertBy(w) /\ wk'[w].pc # "stats"

\* worker w is in the aggregation part of flushBatch (lines 117-165)
Aggregating(w) ==
    wk[w].pc \in {"stats", "recount", "upsert", "refs", "broadcast", "sending"}

\* C21: a batch whose insert fails is abandoned with nothing applied: the
\* failing step leaves clicks, link_stats, top_referrers and every client
\* channel as they were and flushBatch returns at once (the worker is back
\* in its loop with an empty batch and no short code left to aggregate);
\* the aggregation steps run only for a batch whose rows are persisted.
C21_FailedInsertAbandons ==
    /\ [](\A w \in Workers : Aggregating(w) =>
            \A i \in 1..Len(wk[w].batch) :
                clicks[wk[w].batch[i]] >=
                    Cardinality({j \in 1..Len(wk[w].batch) :
                                   wk[w].batch[j] = wk[w].batch[i]}))
    /\ [][\A w \in Workers : InsertFailedBy(w) =>
            /\ clicks' = clicks
            /\ linkStats' = linkStats
            /\ topReferrers' = topReferrers
            /\ mailbox' = mailbox
            /\ wk'[w].pc = wk[w].after
            /\ wk'[w].batch = <<>>
            /\ wk'[w].todo = {}
            /\ abandoned' = abandoned + Len(wk[w].batch)]_vars

\* C21's case: a full batch has been abandoned while another batch has
\* been inserted and aggregated
C21_Witness ==
    /\ abandoned >= BatchSize
    /\ \E c \in Codes : RowsFor(c) > 0 /\ GetLinkStats(c).TotalClicks = RowsFor(c)

\* worker w enters flushBatch from its select loop in this step
FlushBy(w) == wk[w].pc = "select" /\ wk'[w].pc = "insert"

\* C22: a worker flushes when its batch has reached BatchSize, or else when
\* BatchTimeout has elapsed since the first event of the batch arrived: a
\* partial batch is never flushed before it has aged BatchTimeout.
C22_FlushAtSizeOrTimeout ==
    [][\A w \in Workers : FlushBy(w) =>
        \/ Len(wk'[w].batch) >= BatchSize
        \/ wk[w].age >= BatchTimeout]_vars

\* the path without its first byte, up to the next '/'
FirstSegment(path) ==
    LET rest == Tail(path)
        stops == {i \in 1..Len(rest) : rest[i] = "/"}
    IN  IF stops = {} THEN rest
        ELSE SubSeq(rest, 1, (CHOOSE i \in stops : \A j \in stops : i <= j) - 1)

\* the request r has been parsed
Parsed(r) == req[r].pc \in {"parsed", "done"}

\* C23: for a path that begins with '/', both parsers give the path without
\* its leading '/' cut at the next '/' ('/a/b', '/a' and '/a/' give 'a', '/'
\* gives the empty code), so they agree; and the request is answered 404
\* exactly when that code is empty.
C23_ExtractShortCode ==
    \A r \in Reqs :
        (Parsed(r) /\ req[r].path # <<>> /\ Head(req[r].path) = "/") =>
            /\ InlineShortCode(req[r].path) = FirstSegment(req[r].path)
            /\ ExtractShortCode(req[r].path) = FirstSegment(req[r].path)
            /\ (req[r].pc = "done") = (FirstSegment(req[r].path) = <<>>)
            /\ req[r].pc = "done" => req[r].status = 404
            /\ req[r].pc = "parsed" => req[r].shortCode = FirstSegment(req[r].path)

\* C23's case: '/a/b' has been parsed by both handlers, with the code 'a'
C23_Witness ==
    /\ \A r \in Reqs : req[r].pc = "parsed" /\ req[r].shortCode = <<"a">>
    /\ req[1].path = <<"/", "a", "/", "b">>

\* GetAnalytics writes its response for request r in this step
AnalyticsReturnBy(r) ==
    /\ req'[r].handler = "analytics"
    /\ req'[r].pc = "idle"
    /\ req[r].pc # "idle" \/ req[r].handler # "analytics" \/ req'[r] # req[r]

\* C24: GET /api/analytics/<short_code> for a short code without a link record
\* is answered 404 and a period other than 24h, 7d or 30d is answered 400;
\* neither request changes the stored state.
C24_AnalyticsErrors ==
    [][\A r \in Reqs : AnalyticsReturnBy(r) =>
        /\ ~ValidPeriod(req'[r].period) => req'[r].status = 400
        /\ (ValidPeriod(req'[r].period) /\ links[req'[r].code] = None) =>
               req'[r].status = 404
        /\ UNCHANGED <<links, clicks, linkStats, topReferrers, kvLink, realtime>>]_vars

\* the referers in lexicographic ascending order
RefererAsc == <<"", "https://a.io", "https://t.co">>

\* the place of a referer in that order
RefererRank(ref) == CHOOSE i \in 1..Len(RefererAsc) : RefererAsc[i] = ref

\* the rows of top_referrers for the short code in the order
\* click_count DESC, referer ASC, cut at the limit
TopByCountThenReferer(shortCode, limit) ==
    LET rows == ReferrerRows(shortCode)
        n == Cardinality(rows)
        count(ref) == topReferrers[<<shortCode, ref>>]
        before(x, y) == \/ count(x) > count(y)
                        \/ count(x) = count(y) /\ RefererRank(x) < RefererRank(y)
        q == CHOOSE f \in [1..n -> rows] :
                 \A i, j \in 1..n : i < j => before(f[i], f[j])
    IN  FirstN([i \in 1..n |-> [Referer |-> q[i], ClickCount |-> count(q[i])]], limit)

\* C30: the top-referrers read returns the first `limit` rows of the short
\* code ordered by click_count descending, ties broken by referer ascending;
\* the result is determined by the table contents and the limit.
C30_TopReferrersOrder ==
    [][\A r \in Reqs : (AnalyticsReturnBy(r) /\ req'[r].status = 200) =>
        req'[r].body.TopReferrers = TopByCountThenReferer(req'[r].code, TopLimit)]_vars

\* the click rows with short code s and referer r
RowsWithReferer(s, r) ==
    SumOver(clicks, {e \in EventDomain : e.ShortCode = s /\ e.Referer = r})

\* the events of w's batch with short code s and referer r
BatchWithReferer(w, s, r) ==
    Cardinality({i \in 1..Len(wk[w].batch) :
                   wk[w].batch[i].ShortCode = s /\ wk[w].batch[i].Referer = r})

\* worker w has inserted its batch and its flush has not yet reached the
\* referrer upsert for s and r
ReferrerPending(w, s, r) ==
    /\ Aggregating(w)
    /\ \/ s \in wk[w].todo
       \/ wk[w].cur = s /\ wk[w].pc \in {"recount", "upsert"}
       \/ wk[w].cur = s /\ wk[w].pc = "refs" /\ r \in wk[w].refs

\* what the flushes under way still owe to ReferrerCount[s, r]
ReferrerOwed(s, r) ==
    SumOver([w \in Workers |-> BatchWithReferer(w, s, r)],
            {w \in Workers : ReferrerPending(w, s, r)})

\* C29: a successful flush adds to ReferrerCount[s, r], for every short code
\* s and non-empty referer r, exactly the number of batch events with s and
\* r, so the count and what the flushes under way still owe add up to the
\* click rows with s and r; no flush creates or increments an entry with an
\* empty referer.
C29_ReferrerCounts ==
    \A s \in Codes :
        /\ topReferrers[<<s, "">>] = 0
        /\ \A r \in Referers \ {""} :
               topReferrers[<<s, r>>] + ReferrerOwed(s, r) = RowsWithReferer(s, r)

\* C29's case: every worker is back in its loop after flushes (more than
\* one, MaxRequests exceeding BatchSize) have counted the same referer
\* twice and an event without a referer
C29_Witness ==
    /\ \A w \in Workers : wk[w].pc = "select" /\ wk[w].batch = <<>>
    /\ \E s \in Codes :
        /\ topReferrers[<<s, "https://t.co">>] = 2
        /\ RowsWithReferer(s, "") > 0
        /\ GetLinkStats(s).TotalClicks = MaxRequests

\* worker w's flush takes the step that leaves pc `from` in this step
FlushStepBy(w, from) == wk[w].pc = from /\ wk'[w] # wk[w] /\ wk'[w].pc # from

\* C25: a flush that was entered before the shutdown signal runs all its
\* steps to completion whenever the signal arrives: its raw insert commits,
\* its stats upsert is applied and its totals are read back for the
\* broadcast; a worker stops only from its select loop, between batches.
C25_FlushNotCancellable ==
    [][\A w \in Workers :
        /\ wk[w].liveAtEntry =>
            /\ FlushStepBy(w, "insert") =>
                   /\ wk'[w].pc = "stats"
                   /\ \A c \in Codes :
                        RowsFor(c)' = RowsFor(c) + codeStatsTotal(wk[w].batch, c)
            /\ FlushStepBy(w, "upsert") =>
                   GetLinkStats(wk[w].cur)'.TotalClicks =
                       GetLinkStats(wk[w].cur).TotalClicks
                           + codeStatsTotal(wk[w].batch, wk[w].cur)
            /\ (wk[w].pc = "refs" /\ wk[w].refs = {} /\ wk'[w] # wk[w]) =>
                   wk'[w].pc = "broadcast"
        /\ (wk'[w].pc = "exit" /\ wk[w].pc # "exit") =>
               \/ wk[w].pc = "select"
               \/ wk[w].after = "exit"]_vars

\* COUNT(DISTINCT visitor_hash) over the persisted click rows of s
DistinctVisitors(s) ==
    Cardinality({e.VisitorHash : e \in {x \in EventDomain : x.ShortCode = s /\ clicks[x] > 0}})

\* worker w's stats upsert for its current short code succeeds in this step
\* (a batch holds at least one event of the code, so the total changes)
UpsertDoneBy(w) ==
    /\ wk[w].pc = "upsert"
    /\ wk'[w].pc = "refs"
    /\ linkStats' # linkStats

\* C26: after an aggregate update for s has failed in a flush whose insert
\* succeeded, the next flush that touches s and whose steps all succeed
\* brings LinkStats[s] back in line: once its upsert is done, with no other
\* flush under way, total_clicks is the number of persisted click rows of s
\* and unique_visitors their number of distinct visitor hashes.
C26_NextFlushConverges ==
    [][\A w \in Workers :
        (/\ UpsertDoneBy(w)
         /\ wk[w].uniq = DistinctVisitors(wk[w].cur)
         /\ \A v \in Workers \ {w} : wk[v].pc = "select") =>
            /\ GetLinkStats(wk[w].cur)'.TotalClicks = RowsFor(wk[w].cur)
            /\ GetLinkStats(wk[w].cur)'.UniqueVisitors = DistinctVisitors(wk[w].cur)]_vars

\* C28: when the recount of unique visitors for s fails during a flush, the
\* number the flush goes on to store is the stored unique_visitors[s] plus
\* the number of distinct visitor hashes of s in the batch, and this
\* estimate is never below the true distinct count (no other flush being
\* under way).
C28_UniqueEstimate ==
    [][\A w \in Workers :
        (/\ FlushStepBy(w, "recount")
         /\ wk'[w].uniq # DistinctVisitors(wk[w].cur)
         /\ \A v \in Workers \ {w} : wk[v].pc = "select") =>
            /\ wk'[w].uniq = GetLinkStats(wk[w].cur).UniqueVisitors
                               + Cardinality(codeStatsUnique(wk[w].batch, wk[w].cur))
            /\ wk'[w].uniq >= DistinctVisitors(wk[w].cur)]_vars

\* the events worker w holds that it has not yet tried to insert
Uninserted(w) == IF wk[w].pc \in {"select", "insert"} THEN Len(wk[w].batch) ELSE 0

\* worker w takes a step of its flush, after the insert, in this step
AggregateStepBy(w) == Aggregating(w) /\ wk'[w] # wk[w]

\* that step is the return from flushBatch
FlushReturnBy(w) == AggregateStepBy(w) /\ wk'[w].pc \in {"select", "exit"}

\* C27: once the raw insert of a batch has succeeded, a failing stats read,
\* stats upsert or referrer upsert for short code s does not end the flush:
\* every short code of the batch gets its recount, stats upsert, referrer
\* upserts and read-back in turn, a step for s changes no row of another
\* short code, and flushBatch returns only after the last code's last step;
\* the batch is never retried, so every received event is inserted at most
\* once.
C27_FailedStepSkipsOneCode ==
    /\ [](SumOver(clicks, EventDomain) + abandoned
            + SumOver([w \in Workers |-> Uninserted(w)], Workers) = taken)
    /\ [][\A w \in Workers :
            /\ (InsertBy(w) /\ ~InsertFailedBy(w)) =>
                   wk'[w].todo = {wk[w].batch[i].ShortCode : i \in 1..Len(wk[w].batch)}
            /\ AggregateStepBy(w) =>
                /\ clicks' = clicks
                /\ \A c \in Codes \ {wk[w].cur} :
                     /\ GetLinkStats(c)' = GetLinkStats(c)
                     /\ \A r \in Referers : topReferrers'[<<c, r>>] = topReferrers[<<c, r>>]
                /\ FlushReturnBy(w) =>
                     /\ wk[w].todo = {}
                     /\ \/ wk[w].pc = "refs" /\ wk[w].refs = {}
                        \/ wk[w].pc \in {"broadcast", "sending"}
                /\ ~FlushReturnBy(w) => wk'[w].batch = wk[w].batch
                /\ (~FlushReturnBy(w) /\ wk'[w].todo # wk[w].todo) =>
                     \E c \in wk[w].todo :
                        /\ wk'[w].todo = wk[w].todo \ {c}
                        /\ wk'[w].cur = c
                        /\ wk'[w].pc = "recount"
                /\ wk[w].pc = "recount" =>
                     wk'[w].pc = "upsert" /\ wk'[w].cur = wk[w].cur
                /\ wk[w].pc = "upsert" =>
                     /\ wk'[w].pc = "refs" /\ wk'[w].cur = wk[w].cur
                     /\ wk'[w].refs = {wk[w].batch[i].Referer :
                                         i \in {j \in 1..Len(wk[w].batch) :
                                                  wk[w].batch[j].ShortCode = wk[w].cur}} \ {""}
                /\ (wk[w].pc = "refs" /\ wk[w].refs # {}) =>
                     /\ wk'[w].pc = "refs" /\ wk'[w].cur = wk[w].cur
                     /\ \E r \in wk[w].refs : wk'[w].refs = wk[w].refs \ {r}]_vars

\* C27's case: one batch holds both short codes; the stats upsert for a has
\* failed and the flush has gone on to apply the one for b
C27_Witness ==
    /\ taken = BatchSize
    /\ \E w \in Workers :
        /\ Aggregating(w)
        /\ {wk[w].batch[i].ShortCode : i \in 1..Len(wk[w].batch)} = {"a", "b"}
        /\ wk[w].cur = "b"
        /\ wk[w].pc = "broadcast"
        /\ RowsFor("a") = 1
        /\ GetLinkStats("a").TotalClicks = 0
        /\ GetLinkStats("b").TotalClicks = 1

\* C31: frames reach a single subscriber in FIFO order.  A channel changes
\* only by losing its oldest message or by gaining one behind the others;
\* the frame written is the message taken, behind the frames written before;
\* a message placed by worker w is the payload of the flush w is in, read
\* back after that flush's stats upsert, and w starts no flush while a
\* Broadcast of its own is under way, so one worker's broadcasts are placed
\* in the order its flushes complete.
C31_FramesFifo ==
    /\ [](\A w \in Workers : wk[w].pc = "sending" =>
            /\ wk[w].total >= codeStatsTotal(wk[w].batch, wk[w].cur)
            /\ wk[w].total <= GetLinkStats(wk[w].cur).TotalClicks)
    /\ [][\A s \in Subs :
            /\ mailbox'[s] # mailbox[s] =>
                \/ /\ mailbox[s] # <<>>
                   /\ mailbox'[s] = Tail(mailbox[s])
                   /\ frames'[s] \in {frames[s], Append(frames[s], Head(mailbox[s]))}
                \/ \E w \in Workers :
                   /\ SendBy(w)
                   /\ mailbox'[s] = Append(mailbox[s], Payload(wk[w].cur, wk[w].total))
                   /\ frames'[s] = frames[s]
            /\ frames'[s] # frames[s] => mailbox'[s] # mailbox[s]]_vars
    /\ [][\A w \in Workers : FlushBy(w) => wk[w].targets = {}]_vars

\* C31's case: a frame has been written to a stream and two later messages
\* wait in its channel, the older one first
C31_Witness ==
    \E s \in Subs :
        /\ frames[s] # <<>>
        /\ Len(mailbox[s]) >= 2
        /\ frames[s][1].total_clicks < mailbox[s][1].total_clicks
        /\ mailbox[s][1].total_clicks < mailbox[s][2].total_clicks

\* the channel ch is registered for the short code c
RegisteredFor(c, ch) == c \in DOMAIN clients /\ ch \in clients[c]

\* C32: the broker map never holds a short code with an empty set of
\* channels: removing the last channel of a short code removes the entry of
\* that code (and no other), removing one of several keeps the others, and
\* removing a channel that is not registered for the code changes nothing.
C32_NoEmptyEntry ==
    /\ \A c \in DOMAIN clients : clients[c] # {}
    /\ \A c \in Codes, ch \in Subs :
        LET after == RemoveClient(c, ch)
        IN  /\ ~RegisteredFor(c, ch) => after = clients
            /\ (RegisteredFor(c, ch) /\ clients[c] = {ch}) =>
                   /\ DOMAIN after = DOMAIN clients \ {c}
                   /\ \A d \in DOMAIN after : after[d] = clients[d]
            /\ (RegisteredFor(c, ch) /\ clients[c] # {ch}) =>
                   after = [clients EXCEPT ![c] = @ \ {ch}]

\* C32's case: channels were registered and a broadcast reached one of
\* them; all have been removed since and the map is empty again
C32_Witness ==
    /\ DOMAIN clients = {}
    /\ \A ch \in Subs : mailbox[ch] # <<>>

\* C33: Broadcast never waits on a subscriber.  Its next send can always be
\* taken; a send to a full channel changes no channel; so every Broadcast
\* returns, whatever the readers do, and when no Broadcast is under way
\* AddClient and RemoveClient can take the lock: the three cannot deadlock.
C33_BroadcastNeverWaits ==
    /\ [](\A w \in Workers : wk[w].pc = "sending" => ENABLED Broadcast_Send(w))
    /\ [](~ReadLocked => \A ch \in Subs :
             ENABLED SSEBroker_AddClient(ch) /\ ENABLED SSEBroker_RemoveClient(ch))
    /\ [][\A w \in Workers :
            (SendBy(w) /\ \A ch \in wk[w].targets : Len(mailbox[ch]) >= env.cap) =>
                mailbox' = mailbox]_vars
    /\ \A w \in Workers : (wk[w].pc = "sending") ~> (wk[w].pc # "sending")

\* C33's case: every channel of the short code is full; the Broadcast of w
\* has passed one of them and is at the other
C33_Witness ==
    \E w \in Workers :
        /\ wk[w].pc = "sending"
        /\ Cardinality(BroadcastTargets(wk[w].cur)) = MaxSubscribers
        /\ Cardinality(wk[w].targets) = 1
        /\ \A ch \in BroadcastTargets(wk[w].cur) :
             /\ Len(mailbox[ch]) = env.cap
             /\ \A i \in 1..Len(mailbox[ch]) :
                  mailbox[ch][i] # Payload(wk[w].cur, wk[w].total)

\* C40: once RemoveClient(s, m) has returned no Broadcast for s places a
\* message in m: a channel's content grows only by a send of a Broadcast
\* for a short code the channel is registered for at that moment.
C40_NoSendAfterRemove ==
    [][\A ch \in Subs :
        Len(mailbox'[ch]) > Len(mailbox[ch]) =>
            \E w \in Workers :
                /\ SendBy(w)
                /\ RegisteredFor(wk[w].cur, ch)
                /\ mailbox'[ch] = Append(mailbox[ch], Payload(wk[w].cur, wk[w].total))]_vars

\* C40's case: a channel that received a broadcast for a short code has
\* been removed for it, and another Broadcast for that code is under way
C40_Witness ==
    \E w \in Workers, ch \in Subs :
        /\ wk[w].pc = "sending"
        /\ ~RegisteredFor(wk[w].cur, ch)
        /\ mailbox[ch] # <<>>
        /\ mailbox[ch][1].short_code = wk[w].cur
        /\ mailbox[ch][1].total_clicks # wk[w].total

\* the handler of stream s is between AddClient and its return
Attached(s) == sub[s].pc \in {"count", "initial", "streaming"}

\* C38: the channel of a stream is registered before the handler reads the
\* snapshot for the initial frame and stays registered until the handler
\* returns, so a Broadcast for the short code that starts from then on has
\* the channel among its targets and its send puts the message in the
\* channel unless the channel is full: no update falls between the initial
\* frame and the registration.
C38_RegisteredBeforeSnapshot ==
    /\ [](\A s \in Subs : Attached(s) => RegisteredFor(sub[s].code, s))
    /\ [][\A w \in Workers, s \in Subs :
            /\ (BroadcastBy(w) /\ Attached(s) /\ sub[s].code = wk[w].cur) =>
                   /\ wk'[w].pc = "sending"
                   /\ s \in wk'[w].targets
            /\ (SendBy(w) /\ s \in wk[w].targets /\ s \notin wk'[w].targets
                  /\ Len(mailbox[s]) < env.cap) =>
                   mailbox'[s] = Append(mailbox[s], Payload(wk[w].cur, wk[w].total))
            /\ (wk[w].pc = "sending" /\ s \in wk[w].targets /\ wk'[w].pc = "sending") =>
                   \/ s \in wk'[w].targets
                   \/ SendBy(w) /\ Len(mailbox'[s]) >= Len(mailbox[s])]_vars

\* C38's case: a broadcast has reached the channel of a stream whose
\* handler has not yet written its initial frame
C38_Witness ==
    \E s \in Subs :
        /\ sub[s].pc \in {"count", "initial"}
        /\ mailbox[s] # <<>>

\* C34: an L1 entry only moves from absent to present: once a short code
\* is present in L1 it is never removed and its value never changes,
\* whether the cache was pre-populated or not and however the fills of
\* concurrent misses for the same code interleave.
C34_L1AbsentToPresent ==
    [][\A c \in Codes : L1Cache[c] # None => L1Cache'[c] = L1Cache[c]]_vars

\* C34's case: two requests for the same short code both missed L1, both
\* queried the store and both have stored the URL in L1
C34_Witness ==
    \E c \in Codes :
        /\ L1Cache[c] # None
        /\ \A r \in Reqs :
            /\ req[r].handler = "redirect"
            /\ req[r].code = c
            /\ req[r].queried
            /\ req[r].status = RedirectStatus

(***************************************************************************)
(* The realtime counter by itself: redirects of known codes, two at a      *)
(* time, bump clicks:realtime:<code>; each first bump starts the           *)
(* goroutine that sets the key's TTL, which runs at any later time and     *)
(* may fail.                                                               *)
(***************************************************************************)
CounterInit ==
    /\ BaseInit
    /\ env = [pgFaulty |-> FALSE, kvFaulty |-> TRUE, codes |-> KnownCodes,
              ips |-> {"10.0.0.1"}, refs |-> {""}, budget |-> MaxRequests,
              cap |-> MailboxCap]
    /\ L1Cache = PrePopulateL1Cache(TRUE)

CounterNext ==
    \/ \E r \in Reqs :
        \/ HandleRedirect_Begin(r)
        \/ HandleRedirect_Offer(r)
        \/ HandleRedirect_Incr(r)
    \/ RedisDB_Expire

SpecCounter == CounterInit /\ [][CounterNext]_vars

\* request r's Incr returned without an error in this step
BumpedBy(r) ==
    /\ req[r].pc = "incr"
    /\ req'[r].pc = "idle"
    /\ req'[r].bumped

\* C35: a successful bump raises clicks:realtime:<code> by exactly one, so
\* two of them raise it by two, and once two bumps of a code have completed
\* its key has a TTL
C35_TwoBumpsKeepTtl ==
    /\ [][\A r \in Reqs : BumpedBy(r) =>
            realtime' = [realtime EXCEPT ![req[r].code] = @ + 1]]_vars
    /\ [](\A c \in Codes : realtime[c] >= 2 => kvExpire.ttl[c] = "60s")

\* how many times the event occurs in the sequence
Occurrences(events, e) == Cardinality({i \in 1..Len(events) : events[i] = e})

\* the copies of the event that worker w holds and has not yet tried to
\* insert
UninsertedOf(w, e) ==
    IF wk[w].pc \in {"select", "insert"} THEN Occurrences(wk[w].batch, e) ELSE 0

\* the copies of the event in the queue, in a batch not yet inserted, or in
\* the click store
Held(e) ==
    Occurrences(AnalyticsQueue, e)
      + SumOver([w \in Workers |-> UninsertedOf(w, e)], Workers)
      + clicks[e]

\* the events that are queued, batched or being offered
InFlight ==
    {AnalyticsQueue[i] : i \in 1..Len(AnalyticsQueue)}
      \cup UNION {{wk[w].batch[i] : i \in 1..Len(wk[w].batch)} : w \in Workers}
      \cup {EventOf(req[r]) : r \in {q \in Reqs : req[q].pc = "offer"}}

\* the offer of event e is accepted in this step
AcceptedNow(e) ==
    \E r \in Reqs : OfferBy(r) /\ EventOf(req[r]) = e /\ dropped' = dropped

C37_TotalWithinRows ==
    \A c \in Codes :
        /\ GetLinkStats(c).TotalClicks <= RowsFor(c)
        /\ GetLinkStats(c).TotalClicks + PendingCount(c) <= RowsFor(c)

\* C37's case: statements fail, two batches with an event of the same short
\* code were inserted, the increment of one was applied and that of the
\* other was lost to a failed upsert, and no flush is under way
C37_Witness ==
    /\ env.pgFaulty
    /\ \E c \in Codes :
        /\ RowsFor(c) = 2
        /\ GetLinkStats(c).TotalClicks = 1
    /\ \A w \in Workers : wk[w].pc = "select"

(***************************************************************************)
(* Shutdown with every worker goroutine scheduled and a fair select: a     *)
(* worker that can take a step eventually takes one, and a worker that is  *)
(* at its select again and again while ctx.Done() is ready eventually      *)
(* takes that case.                                                        *)
(***************************************************************************)
SpecShutdownFair ==
    /\ SpecShutdown
    /\ \A w \in Workers : WF_vars(WorkerStep(w)) /\ SF_vars(worker_Done(w))

\* StartWorkers (lines 34-40) is past <-ctx.Done() and wg.Wait(): the
\* context is cancelled and every worker has returned
StartWorkers_Returns == ~CtxLive /\ \A w \in Workers : wk[w].pc = "exit"

\* C39: once cancel() has been called every worker leaves its loop, through
\* a last flush when it holds events, and StartWorkers returns, also when
\* redirects keep offering events after the signal; a worker that has
\* returned takes nothing more from the queue.
C39_WorkersStop ==
    /\ (~CtxLive) ~> StartWorkers_Returns
    /\ [][\A w \in Workers : wk[w].pc = "exit" => wk'[w] = wk[w]]_vars
    /\ [][\A w \in Workers :
            (wk[w].pc # "exit" /\ wk'[w].pc = "exit") =>
                /\ ~CtxLive
                /\ wk[w].pc = "select" => wk[w].batch = <<>>]_vars

\* C39's case: StartWorkers has returned while a redirect is still offering
\* and an event accepted after the signal is left in the queue
C39_Witness ==
    /\ StartWorkers_Returns
    /\ AnalyticsQueue # <<>>
    /\ \E r \in Reqs : req[r].pc = "offer"
=============================================================================
